---- MODULE Spec2Model ----
(***************************************************************************)
(* Real-time feature extraction pipeline for card-fraud detection:        *)
(* kafka/src/pipeline/{preprocessor,feature_store,feature_extractor,      *)
(* consumer}.py.                                                          *)
(*                                                                         *)
(* Encodings.                                                              *)
(*  - TLC integers are 32-bit, and the upper timestamp bound of the       *)
(*    preprocessor (4102444800) is not.  A timestamp t is held as the     *)
(*    integer t - TsOrigin; differences of timestamps are unchanged.      *)
(*  - An amount (a Python float) is held as an exact number of mills      *)
(*    (1/1000 of a currency unit): 100.00 is 100000.                      *)
(*  - The card's exponential moving average is an exact rational          *)
(*    [n, k] meaning n / 10^k mills, kept in lowest such form.            *)
(*  - A latitude or longitude is held in 1/10000 of a degree.             *)
(*  - Merchant risk_score and fraud_rate are held in 1/1000.              *)
(*  - Python's None is <<>>, and a present value v is <<v>>, where a       *)
(*    field is optional.                                                  *)
(*  - A JSON value of a raw message is a tagged record: [t |-> "absent"]  *)
(*    (key not in the dict), [t |-> "null"], [t |-> "str", s |-> s],      *)
(*    [t |-> "int", v |-> n], [t |-> "num", v |-> n] (a float, in the     *)
(*    unit of its field), [t |-> "iso", v |-> n] (an ISO-8601 string      *)
(*    with a Z suffix that denotes the instant n), [t |-> "list"].        *)
(***************************************************************************)
EXTENDS Integers, Sequences, FiniteSets, TLC

VARIABLES
    pc,                 \* position of the consumer in consume()/_process_message
    running,            \* FeatureExtractionConsumer.running
    messages_processed, \* FeatureExtractionConsumer.messages_processed
    messages_failed,    \* FeatureExtractionConsumer.messages_failed
    message,            \* the message the loop holds (message.value)
    preprocessed_tx,    \* _process_message's preprocessed_tx
    features,           \* _process_message's features
    redis,              \* the content of the Redis server
    success,            \* what _process_message returned, None before it has
    remaining,          \* number of messages the topic will still deliver
    faults,             \* number of store calls the environment may still fail
    processed,          \* history: the events whose update_card_state has run
    ops,                \* history: the store calls made for the current message
    read_failed,        \* history: the reads that failed in the last extraction
    write_failed,       \* history: the writes that failed for the current message
    partitions,         \* the partitions of a topic that several instances read
    instances,          \* the consumer instances of a group that share the store
    error,              \* the exception a direct call of preprocess raised
    committed,          \* the offset the group has committed for the topic
    stats_counter,      \* consume's stats_counter
    summaries,          \* history: the number of summary lines _print_stats logged
    closed,             \* the clients that have been closed
    cleanups            \* history: the number of times _cleanup has run

vars == << pc, running, messages_processed, messages_failed, message,
           preprocessed_tx, features, success, redis, remaining, faults,
           processed, ops, read_failed, write_failed, partitions,
           instances, error, committed, stats_counter, summaries,
           closed, cleanups >>

\* the single consumer, but for the store
consumer == << pc, running, messages_processed, messages_failed, message,
               preprocessed_tx, features, success, faults, processed, ops,
               read_failed, write_failed, error >>

\* what consume keeps for its statistics summary
metrics == << stats_counter, summaries >>

\* the topic, the instances of a consumer group and its committed offset
group == << partitions, instances, committed >>

\* what _cleanup leaves behind
clients == << closed, cleanups >>

----------------------------------------------------------------------------
(* Bounds of the model *)

MaxMsgs == 3
MaxFaultMsgs == 2
MaxFaults == 1

----------------------------------------------------------------------------
(* Values *)

None == <<>>
Some(v) == <<v>>

TsOrigin == 2000000000

JAbsent == [t |-> "absent"]
JNull == [t |-> "null"]
JStr(s) == [t |-> "str", s |-> s]
JInt(n) == [t |-> "int", v |-> n]
JNum(n) == [t |-> "num", v |-> n]
JIso(n) == [t |-> "iso", v |-> n]
JList == [t |-> "list"]

\* the floats that are no number: NaN and the two infinities, which
\* json.loads reads from NaN, Infinity and -Infinity
JNaN == [t |-> "nan"]
JInf == [t |-> "inf", neg |-> FALSE]
JNegInf == [t |-> "inf", neg |-> TRUE]
Dict(f) == [t |-> "dict", f |-> f]

\* A NaN among the amounts and averages the store and the writes hold as
\* numbers of mills: no amount or average of the model is -0.001
NaN == -1

\* the amount of a preprocessed record, in mills
Mills(x) == IF x.t = "nan" THEN NaN ELSE x.v

\* 1707580000 (2024-02-10 15:46:40 UTC, a Saturday), the reference time of
\* the test suites
T0 == 1707580000 - TsOrigin

----------------------------------------------------------------------------
(* preprocessor.py *)

REQUIRED_FIELDS ==
    {"transaction_id", "card_id", "amount", "merchant_id", "timestamp"}

OPTIONAL_FIELDS ==
    [merchant_category |-> JStr("UNKNOWN"), location_lat |-> JNull,
     location_lon |-> JNull, city |-> JStr(""), state |-> JStr(""),
     user_id |-> JStr("")]

Fields == REQUIRED_FIELDS \cup DOMAIN OPTIONAL_FIELDS

amount_clip_value == 10000000
min_timestamp == -1053315200
max_timestamp == 2102444800
MaxLat == 900000
MaxLon == 1800000

\* A result of preprocess: the record it returns, or the ValueError it raises.
Ok(tx) == [ok |-> TRUE, tx |-> tx]
ValueError(why) == [ok |-> FALSE, exc |-> "ValueError", err |-> why]

\* an OverflowError, which is no ValueError
OverflowError == [ok |-> FALSE, exc |-> "OverflowError", err |-> "cast"]

IsDict(m) == m.t = "dict"

\* validate_schema: a dict in which every required field is present and not None
validate_schema(m) ==
    /\ IsDict(m)
    /\ \A f \in REQUIRED_FIELDS : m.f[f].t \notin {"absent", "null"}

\* _handle_missing_values
HandleMissingValues(d) ==
    [f \in Fields |->
        IF f \in DOMAIN OPTIONAL_FIELDS /\ d[f].t \in {"absent", "null"}
        THEN OPTIONAL_FIELDS[f] ELSE d[f]]

\* str(x) of a JSON value: a string is itself, an integer its decimal digits
PyStr(x) ==
    CASE x.t = "str" -> x
      [] x.t = "iso" -> JStr(ToString(x))
      [] x.t = "int" -> JStr(ToString(x.v))
      [] x.t = "num" -> JStr(ToString(x.v))
      [] x.t = "nan" -> JStr("nan")
      [] x.t = "inf" -> JStr(IF x.neg THEN "-inf" ELSE "inf")
      [] OTHER -> JStr("[]")

\* float(x) succeeds on a number; a non-numeric string raises ValueError and a
\* list TypeError
FloatOk(x) == x.t \in {"int", "num", "nan", "inf"}
PyFloat(x) == IF x.t \in {"nan", "inf"} THEN x ELSE JNum(x.v)

\* x <= n and x >= n for a float x and a number n: a comparison with NaN is
\* false
FloatLe(x, n) ==
    CASE x.t = "nan" -> FALSE
      [] x.t = "inf" -> x.neg
      [] OTHER -> x.v <= n

FloatGe(x, n) ==
    CASE x.t = "nan" -> FALSE
      [] x.t = "inf" -> ~x.neg
      [] OTHER -> x.v >= n

\* the keys _cast_types assigns, in the order it assigns them
CastOrder == <<"transaction_id", "card_id", "merchant_id",
               "merchant_category", "amount", "timestamp", "location_lat",
               "location_lon">>

\* the cast of the key f raises: float() of what is no number, int() of a
\* float that is NaN or infinite
CastFails(d, f) ==
    \/ f = "amount" /\ ~FloatOk(d[f])
    \/ f = "timestamp" /\ d[f].t \in {"nan", "inf"}
    \/ f \in {"location_lat", "location_lon"}
        /\ d[f].t # "null" /\ ~FloatOk(d[f])

\* _cast_types, TRUE when no cast raises
CastOk(d) == \A i \in DOMAIN CastOrder : ~CastFails(d, CastOrder[i])

FirstFailing(d) ==
    CHOOSE i \in DOMAIN CastOrder :
        /\ CastFails(d, CastOrder[i])
        /\ \A j \in 1..(i - 1) : ~CastFails(d, CastOrder[j])

\* what _cast_types raises at the first cast that fails: the except clause
\* turns ValueError and TypeError into ValueError; int(inf) raises
\* OverflowError, which passes through it
CastError(d) ==
    IF CastOrder[FirstFailing(d)] = "timestamp" /\ d["timestamp"].t = "inf"
    THEN OverflowError
    ELSE ValueError("cast")

\* the assignment _cast_types makes to the key f
CastField(d, f) ==
    CASE f \in {"transaction_id", "card_id", "merchant_id",
                "merchant_category"} -> PyStr(d[f])
      [] f = "amount" -> PyFloat(d[f])
      [] f = "timestamp" ->
            IF d[f].t \in {"int", "num"} THEN JInt(d[f].v) ELSE d[f]
      [] f \in {"location_lat", "location_lon"} ->
            IF d[f].t # "null" THEN PyFloat(d[f]) ELSE d[f]
      [] OTHER -> d[f]

CastTypes(d) == [f \in Fields |-> CastField(d, f)]

\* the dict as _cast_types leaves it when a cast raises: the keys before the
\* failing one are assigned
CastPartial(d) ==
    [f \in Fields |->
        IF \E j \in 1..(FirstFailing(d) - 1) : CastOrder[j] = f
        THEN CastField(d, f) ELSE d[f]]

Abs(n) == IF n < 0 THEN -n ELSE n

\* round(x, 2) of a non-negative amount in mills.  The float nearest to a
\* decimal tie (last digit 5) is not the tie, and Python rounds the float: the
\* tie is resolved here to the even cent, and no amount of the model is a tie.
Round2(m) ==
    LET q == m \div 10
        r == m % 10
    IN  IF r < 5 THEN 10 * q
        ELSE IF r > 5 THEN 10 * (q + 1)
        ELSE IF q % 2 = 0 THEN 10 * q ELSE 10 * (q + 1)

\* _normalize_amount
NormalizeAmount(a) ==
    LET pos == IF a < 0 THEN Abs(a) ELSE a
        clipped == IF pos > amount_clip_value THEN amount_clip_value ELSE pos
    IN  Round2(clipped)

\* _normalize_amount of a float: NaN is neither < 0 nor > amount_clip_value
\* and round(nan, 2) is NaN; an infinity of either sign is clipped
NormalizeAmountFloat(x) ==
    CASE x.t = "nan" -> x
      [] x.t = "inf" -> JNum(Round2(amount_clip_value))
      [] OTHER -> JNum(NormalizeAmount(x.v))

\* _parse_timestamp
ParseTimestampOk(x) == x.t \in {"int", "num", "iso"}
ParseTimestamp(x) == JInt(x.v)

\* _validate_ranges without its check of the amount
ValidateRangesNoAmount(d) ==
    /\ min_timestamp <= d["timestamp"].v /\ d["timestamp"].v <= max_timestamp
    /\ d["location_lat"].t # "null" =>
            (FloatGe(d["location_lat"], -MaxLat)
                /\ FloatLe(d["location_lat"], MaxLat))
    /\ d["location_lon"].t # "null" =>
            (FloatGe(d["location_lon"], -MaxLon)
                /\ FloatLe(d["location_lon"], MaxLon))

\* _validate_ranges with the limits themselves out of range
ValidateRangesStrict(d) ==
    /\ ~FloatLe(d["amount"], 0)
    /\ min_timestamp < d["timestamp"].v /\ d["timestamp"].v < max_timestamp
    /\ d["location_lat"].t # "null" =>
            (~FloatLe(d["location_lat"], -MaxLat)
                /\ ~FloatGe(d["location_lat"], MaxLat))
    /\ d["location_lon"].t # "null" =>
            (~FloatLe(d["location_lon"], -MaxLon)
                /\ ~FloatGe(d["location_lon"], MaxLon))

\* _validate_ranges, TRUE when it does not raise
ValidateRanges(d) ==
    /\ ~FloatLe(d["amount"], 0)
    /\ min_timestamp <= d["timestamp"].v /\ d["timestamp"].v <= max_timestamp
    /\ d["location_lat"].t # "null" =>
            (FloatGe(d["location_lat"], -MaxLat)
                /\ FloatLe(d["location_lat"], MaxLat))
    /\ d["location_lon"].t # "null" =>
            (FloatGe(d["location_lon"], -MaxLon)
                /\ FloatLe(d["location_lon"], MaxLon))

\* TransactionPreprocessor.preprocess
preprocess(m) ==
    IF ~validate_schema(m) THEN ValueError("schema")
    ELSE
        LET filled == HandleMissingValues(m.f) IN
        IF ~CastOk(filled) THEN CastError(filled)
        ELSE
            LET cast == CastTypes(filled)
                normalized ==
                    [cast EXCEPT !["amount"] = NormalizeAmountFloat(@)]
            IN
            IF ~ParseTimestampOk(normalized["timestamp"])
            THEN ValueError("timestamp")
            ELSE
                LET parsed ==
                        [normalized EXCEPT
                            !["timestamp"] = ParseTimestamp(@)]
                IN  IF ValidateRanges(parsed) THEN Ok(parsed)
                    ELSE ValueError("range")

\* processed = transaction: the same dict under a second name
CopyAlias(heap, ref) == [heap |-> heap, ref |-> ref]

\* processed = transaction.copy(): a new dict with the keys and values of the
\* dict at ref; the dicts live in heap, by name
Copy(heap, ref) ==
    [heap |-> [o \in DOMAIN heap \cup {"processed"} |-> heap[ref]],
     ref |-> "processed"]

\* The caller's record after preprocess(m) has returned or raised.  Steps 2
\* to 5 assign keys of the dict that processed (here copy) names.
preprocess_argument(m) ==
    IF ~validate_schema(m) THEN m
    ELSE
        LET c == Copy([transaction |-> m.f], "transaction")
            copy == c.ref
            filled == HandleMissingValues(c.heap[copy])
            h2 == [c.heap EXCEPT ![copy] = filled]
        IN  IF ~CastOk(filled)
            THEN Dict([h2 EXCEPT ![copy] = CastPartial(filled)]
                        .transaction)
            ELSE
                LET h3 == [h2 EXCEPT ![copy] = CastTypes(filled)]
                    h4 == [h3 EXCEPT ![copy]["amount"] =
                                NormalizeAmountFloat(@)]
                IN  IF ~ParseTimestampOk(h4[copy]["timestamp"])
                    THEN Dict(h4.transaction)
                    ELSE Dict([h4 EXCEPT ![copy]["timestamp"] =
                                    ParseTimestamp(@)].transaction)

----------------------------------------------------------------------------
(* The Redis server, as feature_store.py uses it.                          *)
(*   zset[c]  card:{c}:tx_history   a set of [member, score]; a member is  *)
(*            the JSON text of [amount, merchant_id, timestamp] and occurs *)
(*            once                                                         *)
(*   sset[c]  card:{c}:merchants:24h                                       *)
(*   hash[c]  card:{c}:stats        fields avg_amount, last_tx_timestamp,  *)
(*            each None when the field is not in the hash                  *)
(*   ttl[c]   the TTL of each of the three keys, None when the key has no  *)
(*            TTL or does not exist                                        *)
(*   merchant[m]  features:merchant:{m}, a hash written by another process *)
(*   card_features[c]  features:card:{c}, likewise                         *)
(* A key of Redis exists if and only if its value is not empty.            *)

CardIds == {"c1", "c2", "7", ""}
MerchantIds == {"m1", "m2"}

TTL_TX_HISTORY == 86400
TTL_MERCHANT_SET == 86400
TTL_CARD_STATS == 2592000

EmptyStats == [avg_amount |-> None, last_tx_timestamp |-> None]
NoTtl == [tx_history |-> None, merchants |-> None, stats |-> None]

\* features:merchant:* as redis_feature_populator leaves it: m1 has a full
\* hash, m2 has none
MerchantHashes ==
    [m \in MerchantIds |->
        IF m = "m1"
        THEN [risk_score |-> 900, fraud_rate |-> 50, total_transactions |-> 7]
        ELSE <<>>]

\* features:card:* as redis_feature_populator leaves it: c1 has a hash
CardHashes ==
    [c \in CardIds |->
        IF c = "c1" THEN [tx_count_24h |-> 3, is_new_card |-> 0] ELSE <<>>]

EmptyRedis ==
    [zset |-> [c \in CardIds |-> {}],
     sset |-> [c \in CardIds |-> {}],
     hash |-> [c \in CardIds |-> EmptyStats],
     ttl |-> [c \in CardIds |-> NoTtl],
     merchant |-> MerchantHashes,
     card_features |-> CardHashes]

KeyExists(r, c, key) ==
    CASE key = "tx_history" -> r.zset[c] # {}
      [] key = "merchants" -> r.sset[c] # {}
      [] key = "stats" -> r.hash[c] # EmptyStats

\* EXPIRE key ttl NX: sets the TTL only of a key that has none
ExpireNX(r, c, key, ttl) ==
    IF KeyExists(r, c, key) /\ r.ttl[c][key] = None
    THEN [r EXCEPT !.ttl[c][key] = Some(ttl)]
    ELSE r

\* EXPIRE key ttl: sets the TTL of an existing key
Expire(r, c, key, ttl) ==
    IF KeyExists(r, c, key)
    THEN [r EXCEPT !.ttl[c][key] = Some(ttl)]
    ELSE r

\* ZADD with scores made distinct: the score plus the number of entries the
\* set already has
ZAddSequenced(r, c, member, score) ==
    [r EXCEPT !.zset[c] =
        {e \in @ : e.member # member}
            \cup {[member |-> member, score |-> score + Cardinality(@)]}]

\* ZADD key {member: score}: a member already in the set keeps one entry
ZAdd(r, c, member, score) ==
    [r EXCEPT !.zset[c] =
        {e \in @ : e.member # member}
            \cup {[member |-> member, score |-> score]}]

\* ZREMRANGEBYSCORE key -inf max: removes the entries with score <= max; a key
\* left empty is deleted, and its TTL with it
ZRemRangeByScore(r, c, max) ==
    LET kept == {e \in r.zset[c] : ~(e.score <= max)}
    IN  [r EXCEPT !.zset[c] = kept,
                  !.ttl[c]["tx_history"] = IF kept = {} THEN None ELSE @]

\* ZRANGEBYSCORE key min +inf: the upper bound left out
ZRangeFromScore(r, c, min, max) ==
    {e \in r.zset[c] : min <= e.score}

\* ZRANGEBYSCORE key min max: both bounds inclusive
ZRangeByScore(r, c, min, max) ==
    {e \in r.zset[c] : min <= e.score /\ e.score <= max}

SAdd(r, c, m) == [r EXCEPT !.sset[c] = @ \cup {m}]

SCard(r, c) == Cardinality(r.sset[c])

\* the stats of a card written as one object that holds the field given
HSetWhole(r, c, field, value) ==
    [r EXCEPT !.hash[c] = [EmptyStats EXCEPT ![field] = Some(value)]]

HSet(r, c, field, value) == [r EXCEPT !.hash[c][field] = Some(value)]

HGet(r, c, field) == r.hash[c][field]

Ret(r, v) == [redis |-> r, ret |-> v]

----------------------------------------------------------------------------
(* feature_store.py.  The parameter fail names the Redis call of the       *)
(* operation that raises ("none": no call raises).  A call that raises has *)
(* changed nothing on the server.                                          *)

default_avg_amount == 75000

\* The rational n / 10^k
Rat(n, k) == [n |-> n, k |-> k]

RECURSIVE Pow10(_)
Pow10(k) == IF k = 0 THEN 1 ELSE 10 * Pow10(k - 1)

RECURSIVE Norm(_)
Norm(q) ==
    IF q.k > 0 /\ q.n % 10 = 0 THEN Norm(Rat(q.n \div 10, q.k - 1)) ELSE q

\* x = y for rationals in any form
RatEq(x, y) == x.n * Pow10(y.k) = y.n * Pow10(x.k)

\* the weights exchanged: (1 - alpha) * amount + alpha * old_avg
NewAvgSwapped(amount, old_avg) ==
    Norm(Rat(9 * amount * Pow10(old_avg.k) + old_avg.n, old_avg.k + 1))

\* two steps of the average in one update
NewAvgTwice(amount, old_avg) ==
    Norm(Rat(19 * amount * Pow10(old_avg.k) + 81 * old_avg.n, old_avg.k + 2))

\* alpha * amount + (1 - alpha) * old_avg with alpha = 0.1 (rolling_avg_alpha);
\* NaN when either is NaN
NewAvg(amount, old_avg) ==
    IF amount = NaN \/ old_avg = Rat(NaN, 0) THEN Rat(NaN, 0)
    ELSE Norm(Rat(amount * Pow10(old_avg.k) + 9 * old_avg.n, old_avg.k + 1))

\* new = 0.1 * amount + 0.9 * prev, for rationals new and prev of mills
IsEmaStep(new, prev, amount) ==
    /\ new.k <= prev.k + 1
    /\ new.n * Pow10(prev.k + 1 - new.k) = amount * Pow10(prev.k) + 9 * prev.n

\* the stored average of a card, 75.0 when it has none
StoredAvgOr75(r, card) ==
    IF r.hash[card].avg_amount = None THEN Rat(75000, 0)
    ELSE r.hash[card].avg_amount[1]

TxMember(tx) ==
    [amount |-> Mills(tx["amount"]),
     merchant_id |-> tx["merchant_id"].s,
     timestamp |-> tx["timestamp"].v]

add_to_transaction_history(r, card_id, tx, fail) ==
    LET timestamp == tx["timestamp"].v
        r1 == ZAdd(r, card_id, TxMember(tx), timestamp)
        r2 == Expire(r1, card_id, "tx_history", TTL_TX_HISTORY)
        r3 == ZRemRangeByScore(r2, card_id, timestamp - TTL_TX_HISTORY)
    IN  CASE fail = "zadd" -> Ret(r, FALSE)
          [] fail = "expire" -> Ret(r1, FALSE)
          [] fail = "zremrangebyscore" -> Ret(r2, FALSE)
          [] OTHER -> Ret(r3, TRUE)

\* the transactions with current_timestamp - window_seconds <= score <=
\* current_timestamp; [] when the call raises
get_transaction_history(r, card_id, window_seconds, current_timestamp, fail) ==
    IF fail # "none" THEN {}
    ELSE {e.member :
            e \in ZRangeByScore(r, card_id,
                                current_timestamp - window_seconds,
                                current_timestamp)}

add_merchant_to_set(r, card_id, merchant_id, fail) ==
    LET r1 == SAdd(r, card_id, merchant_id)
        r2 == Expire(r1, card_id, "merchants", TTL_MERCHANT_SET)
    IN  CASE fail = "sadd" -> Ret(r, FALSE)
          [] fail = "expire" -> Ret(r1, FALSE)
          [] OTHER -> Ret(r2, TRUE)

\* -1 for a count that could not be read
get_unique_merchant_count_sentinel(r, card_id, fail) ==
    IF fail # "none" THEN -1 ELSE SCard(r, card_id)

get_unique_merchant_count(r, card_id, fail) ==
    IF fail # "none" THEN 0 ELSE SCard(r, card_id)

update_rolling_average(r, card_id, amount, fail) ==
    LET old_avg_str == HGet(r, card_id, "avg_amount")
        old_avg == IF old_avg_str # None THEN old_avg_str[1]
                   ELSE Rat(default_avg_amount, 0)
        new_avg == NewAvg(amount, old_avg)
        r1 == HSet(r, card_id, "avg_amount", new_avg)
        r2 == Expire(r1, card_id, "stats", TTL_CARD_STATS)
    IN  CASE fail = "hget" -> Ret(r, Rat(default_avg_amount, 0))
          [] fail = "hset" -> Ret(r, Rat(default_avg_amount, 0))
          [] fail = "expire" -> Ret(r1, Rat(default_avg_amount, 0))
          [] OTHER -> Ret(r2, new_avg)

get_rolling_average(r, card_id, fail) ==
    IF fail # "none" THEN None ELSE HGet(r, card_id, "avg_amount")

\* the stored timestamp only ever raised
update_last_transaction_timestamp_max(r, card_id, timestamp, fail) ==
    LET old == HGet(r, card_id, "last_tx_timestamp")
        newest == IF old # None /\ old[1] > timestamp THEN old[1]
                  ELSE timestamp
        r1 == HSet(r, card_id, "last_tx_timestamp", newest)
        r2 == Expire(r1, card_id, "stats", TTL_CARD_STATS)
    IN  CASE fail = "hset" -> Ret(r, FALSE)
          [] fail = "expire" -> Ret(r1, FALSE)
          [] OTHER -> Ret(r2, TRUE)

update_last_transaction_timestamp(r, card_id, timestamp, fail) ==
    LET r1 == HSet(r, card_id, "last_tx_timestamp", timestamp)
        r2 == Expire(r1, card_id, "stats", TTL_CARD_STATS)
    IN  CASE fail = "hset" -> Ret(r, FALSE)
          [] fail = "expire" -> Ret(r1, FALSE)
          [] OTHER -> Ret(r2, TRUE)

get_last_transaction_timestamp(r, card_id, fail) ==
    IF fail # "none" THEN None ELSE HGet(r, card_id, "last_tx_timestamp")

_get_default_merchant_features ==
    [risk_score |-> 500, fraud_rate |-> 2, total_transactions |-> 100]

get_merchant_features(r, merchant_id, fail) ==
    LET h == IF merchant_id \in DOMAIN r.merchant
             THEN r.merchant[merchant_id] ELSE <<>>
        Get(k) == IF k \in DOMAIN h THEN h[k]
                  ELSE _get_default_merchant_features[k]
    IN  IF fail # "none" \/ DOMAIN h = {}
        THEN _get_default_merchant_features
        ELSE [k \in {"risk_score", "fraud_rate", "total_transactions"} |->
                Get(k)]

----------------------------------------------------------------------------
(* feature_extractor.py *)

velocity_windows == [w10m |-> 600, w1h |-> 3600, w24h |-> 86400]

\* The store reads of extract_features, in the order it makes them
ReadOps == <<"history_10m", "history_1h", "history_24h", "merchant_count",
             "last_ts", "rolling_avg", "merchant_features">>
ReadOpSet == {ReadOps[i] : i \in DOMAIN ReadOps}

\* fail argument of the read named op, when the reads in F raise
FailOf(F, op) == IF op \in F THEN "redis" ELSE "none"

RECURSIVE SumAmounts(_)
SumAmounts(txs) ==
    IF txs = {} THEN 0
    ELSE LET tx == CHOOSE x \in txs : TRUE
         IN  tx.amount + SumAmounts(txs \ {tx})

\* a * 10^j = q * n + r, by long division
RECURSIVE LongDiv(_, _, _)
LongDiv(a, n, j) ==
    IF j = 0 THEN [q |-> a \div n, r |-> a % n]
    ELSE LET p == LongDiv(a, n, j - 1)
         IN  [q |-> 10 * p.q + (10 * p.r) \div n, r |-> (10 * p.r) % n]

\* the integer nearest to a * 10^j / n (a >= 0, n > 0), ties to even
RoundDiv(a, n, j) ==
    LET d == LongDiv(a, n, j)
    IN  IF 2 * d.r < n THEN d.q
        ELSE IF 2 * d.r > n THEN d.q + 1
        ELSE IF d.q % 2 = 0 THEN d.q ELSE d.q + 1

\* round(avg, 2) of the rational avg, in mills
RoundAvg2(avg) ==
    IF avg.k = 0 THEN Round2(avg.n)
    ELSE 10 * RoundDiv(avg.n, Pow10(avg.k + 1), 0)

\* round(num / avg, 3) in 1/1000, for num in mills and the rational avg > 0
RoundRatio3(num, avg) ==
    IF num >= 0 THEN RoundDiv(num, avg.n, avg.k + 3)
    ELSE -RoundDiv(-num, avg.n, avg.k + 3)

\* _safe_log: log(max(value, 0) + 1), kept as the term it is
SafeLog(value) == [log1p |-> IF value > 0 THEN value ELSE 0]

ComputeTransactionFeatures(tx) ==
    [amount |-> tx["amount"].v,
     amount_log |-> SafeLog(tx["amount"].v),
     merchant_category |-> tx["merchant_category"].s,
     has_location |-> IF tx["location_lat"].t # "null" THEN 1 ELSE 0]

ComputeVelocityFeatures(r, card_id, current_timestamp, F) ==
    LET h10m == get_transaction_history(r, card_id, velocity_windows.w10m,
                    current_timestamp, FailOf(F, "history_10m"))
        h1h == get_transaction_history(r, card_id, velocity_windows.w1h,
                    current_timestamp, FailOf(F, "history_1h"))
        h24h == get_transaction_history(r, card_id, velocity_windows.w24h,
                    current_timestamp, FailOf(F, "history_24h"))
        unique_merchants ==
            get_unique_merchant_count(r, card_id, FailOf(F, "merchant_count"))
        last_tx_timestamp ==
            get_last_transaction_timestamp(r, card_id, FailOf(F, "last_ts"))
    IN  [tx_count_10m |-> Cardinality(h10m),
         total_amount_10m |-> Round2(SumAmounts(h10m)),
         tx_count_1h |-> Cardinality(h1h),
         total_amount_1h |-> Round2(SumAmounts(h1h)),
         tx_count_24h |-> Cardinality(h24h),
         total_amount_24h |-> Round2(SumAmounts(h24h)),
         unique_merchants_24h |-> unique_merchants,
         time_since_last_tx |->
            \* last_tx_timestamp and last_tx_timestamp > 0
            IF last_tx_timestamp # None
               /\ last_tx_timestamp[1] > -TsOrigin
            THEN current_timestamp - last_tx_timestamp[1]
            ELSE 0]

ComputeRollingFeatures(r, card_id, current_amount, F) ==
    LET stored == get_rolling_average(r, card_id, FailOf(F, "rolling_avg"))
        current_avg ==
            IF stored = None \/ stored[1].n = 0
            THEN Rat(default_avg_amount, 0) ELSE stored[1]
        positive == current_avg.n > 0
        \* (current_amount - current_avg) * 10^k, the numerator over avg.n
        diff == current_amount * Pow10(current_avg.k) - current_avg.n
    IN  [avg_tx_amount_30d |-> RoundAvg2(current_avg),
         amount_deviation |->
            IF positive
            THEN IF diff >= 0 THEN RoundDiv(diff, current_avg.n, 3)
                 ELSE -RoundDiv(-diff, current_avg.n, 3)
            ELSE 0,
         amount_vs_avg_ratio |->
            IF positive THEN RoundRatio3(current_amount, current_avg)
            ELSE 1000]

\* seconds east of UTC of the zone datetime.fromtimestamp uses
utc_offset == 0

ComputeTemporalFeatures(timestamp) ==
    LET local == timestamp + (TsOrigin % 86400) + utc_offset
        days == (TsOrigin \div 86400) + (local \div 86400)
        hour == (local % 86400) \div 3600
        \* 1970-01-01 was a Thursday, weekday() = 3
        day_of_week == (days + 3) % 7
    IN  [hour_of_day |-> hour,
         day_of_week |-> day_of_week,
         is_weekend |-> IF day_of_week >= 5 THEN 1 ELSE 0,
         is_night |-> IF hour >= 22 \/ hour < 6 THEN 1 ELSE 0]

\* the merchant's features under the keys of the store's hash
MerchantUnprefixed(mf) ==
    [risk_score |-> mf.risk_score,
     fraud_rate |-> mf.fraud_rate,
     total_transactions |-> mf.total_transactions]

\* {f'merchant_{k}': v for k, v in merchant_features.items()}
MerchantPrefixed(mf) ==
    [merchant_risk_score |-> mf.risk_score,
     merchant_fraud_rate |-> mf.fraud_rate,
     merchant_total_transactions |-> mf.total_transactions]

\* extract_features(transaction) against the store r when the reads in F raise
extract_features(tx, r, F) ==
    LET card_id == tx["card_id"].s
        merchant_id == tx["merchant_id"].s
        amount == tx["amount"].v
        timestamp == tx["timestamp"].v
    IN  ComputeTransactionFeatures(tx)
        @@ ComputeVelocityFeatures(r, card_id, timestamp, F)
        @@ ComputeRollingFeatures(r, card_id, amount, F)
        @@ ComputeTemporalFeatures(timestamp)
        @@ MerchantPrefixed(get_merchant_features(r, merchant_id,
                                FailOf(F, "merchant_features")))

\* The four writes of update_card_state, in the order it makes them, with the
\* Redis calls of each that may raise
WriteOps == <<"upd_history", "upd_merchant", "upd_avg", "upd_last_ts">>

FailPoints(op) ==
    CASE op = "upd_history" -> {"zadd", "expire", "zremrangebyscore"}
      [] op = "upd_merchant" -> {"sadd", "expire"}
      [] op = "upd_avg" -> {"hget", "hset", "expire"}
      [] op = "upd_last_ts" -> {"hset", "expire"}

\* update_card_state that also keeps features:card:{card_id} up to date
\* (update_card_features) when it writes the average
CardStateWriteMirror(op, r, card_id, tx, fail) ==
    CASE op = "upd_history" ->
            add_to_transaction_history(r, card_id, tx, fail)
      [] op = "upd_merchant" ->
            add_merchant_to_set(r, card_id, tx["merchant_id"].s, fail)
      [] op = "upd_avg" ->
            LET w == update_rolling_average(r, card_id, tx["amount"].v, fail)
            IN  Ret([w.redis EXCEPT !.card_features[card_id] =
                        [tx_count_24h |-> 0, is_new_card |-> 0]], w.ret)
      [] op = "upd_last_ts" ->
            update_last_transaction_timestamp(r, card_id,
                                              tx["timestamp"].v, fail)

\* one write of update_card_state(card_id, transaction)
CardStateWrite(op, r, card_id, tx, fail) ==
    CASE op = "upd_history" ->
            add_to_transaction_history(r, card_id, tx, fail)
      [] op = "upd_merchant" ->
            add_merchant_to_set(r, card_id, tx["merchant_id"].s, fail)
      [] op = "upd_avg" ->
            update_rolling_average(r, card_id, Mills(tx["amount"]), fail)
      [] op = "upd_last_ts" ->
            update_last_transaction_timestamp(r, card_id,
                                              tx["timestamp"].v, fail)

----------------------------------------------------------------------------
(* The messages of the topic *)

BaseFields ==
    [f \in Fields |-> IF f = "transaction_id" THEN JStr("tx") ELSE JAbsent]

Event(card, merchant, amount, ts) ==
    Dict([BaseFields EXCEPT !["card_id"] = JStr(card),
                            !["merchant_id"] = JStr(merchant),
                            !["amount"] = JNum(amount),
                            !["timestamp"] = JInt(ts)])

Timestamps == {T0, T0 + 600, T0 + 3600, T0 + 86400, T0 + 87000}

\* events that need no normalization
PlainEvents ==
    {Event("c1", "m1", 100000, ts) : ts \in Timestamps}
    \cup {Event("c1", "m2", 50000, ts) : ts \in Timestamps}
    \cup {Event("c2", "m1", 50000, T0)}

E0 == Event("c1", "m1", 100000, T0)
With(field, value) == Dict([E0.f EXCEPT ![field] = value])

\* events that preprocess accepts and changes
NormalizedEvents ==
    {With("amount", JNum(-50000)),
     With("amount", JNum(10000010)),
     With("timestamp", JIso(T0 + 600)),
     With("location_lat", JNum(MaxLat))}

\* messages that preprocess rejects
BadMessages ==
    {JList,
     With("card_id", JAbsent),
     With("amount", JNull),
     With("amount", JStr("abc")),
     With("amount", JNum(0)),
     With("amount", JNum(4)),
     With("timestamp", JInt(min_timestamp - 1)),
     With("timestamp", JStr("yesterday")),
     With("location_lat", JNum(MaxLat + 1)),
     With("location_lon", JList)}

Messages == PlainEvents \cup NormalizedEvents \cup BadMessages

\* the topic of the runs in which store calls raise
FaultMessages ==
    {Event("c1", "m1", 100000, T0),
     Event("c1", "m2", 50000, T0 + 600),
     Event("c1", "m1", 100000, T0 + 86400),
     With("card_id", JInt(7)),
     With("card_id", JNull)}

----------------------------------------------------------------------------
(* consumer.py *)

\* FeatureExtractionConsumer.__init__
InitCommon ==
    /\ pc = "init"
    /\ running = TRUE
    /\ messages_processed = 0
    /\ messages_failed = 0
    /\ message = None
    /\ preprocessed_tx = None
    /\ features = None
    /\ success = None
    /\ redis = EmptyRedis
    /\ processed = <<>>
    /\ ops = <<>>
    /\ read_failed = {}
    /\ write_failed = {}
    /\ partitions = <<>>
    /\ instances = <<>>
    /\ error = None
    /\ committed = 0
    /\ stats_counter = 0
    /\ summaries = 0
    /\ closed = {}
    /\ cleanups = 0

Init == InitCommon /\ remaining = MaxMsgs /\ faults = 0

InitFault == InitCommon /\ remaining = MaxFaultMsgs /\ faults = MaxFaults

\* _signal_handler: SIGINT or SIGTERM, at any point of a running consumer
SignalHandler ==
    /\ pc \notin {"init", "done", "exit1"}
    /\ running
    /\ running' = FALSE
    /\ UNCHANGED << pc, messages_processed, messages_failed, message,
                    preprocessed_tx, features, success, redis, remaining,
                    faults, processed, ops, read_failed,
                    write_failed,
                    group, error, metrics, clients >>

\* _init_services inside the try of consume: a service that is not reached
\* makes the consumer skip the loop and end through _cleanup
InitServicesCleanup ==
    /\ pc = "init"
    /\ \E reached \in BOOLEAN : pc' = IF reached THEN "next" ELSE "final"
    /\ UNCHANGED << running, messages_processed, messages_failed, message,
                    preprocessed_tx, features, success, redis, remaining,
                    faults, processed, ops, read_failed,
                    write_failed,
                    group, error, metrics, clients >>

\* _init_services: every service is reached, or sys.exit(1)
InitServices ==
    /\ pc = "init"
    /\ \E reached \in BOOLEAN : pc' = IF reached THEN "next" ELSE "exit1"
    /\ UNCHANGED << running, messages_processed, messages_failed, message,
                    preprocessed_tx, features, success, redis, remaining,
                    faults, processed, ops, read_failed,
                    write_failed,
                    group, error, metrics, clients >>

\* for message in self.consumer: the iterator yields the next message
NextMessage(topic) ==
    /\ pc = "next"
    /\ remaining > 0
    /\ \E m \in topic : message' = Some(m)
    /\ remaining' = remaining - 1
    /\ pc' = "check"
    /\ UNCHANGED << running, messages_processed, messages_failed,
                    preprocessed_tx, features, success, redis, faults,
                    processed, ops, read_failed,
                    write_failed,
                    group, error, metrics, clients >>

\* if not self.running: break
CheckRunning ==
    /\ pc = "check"
    /\ pc' = IF running THEN "preprocess" ELSE "final"
    /\ preprocessed_tx' = None
    /\ features' = None
    /\ success' = None
    /\ ops' = <<>>
    /\ read_failed' = {}
    /\ write_failed' = {}
    /\ UNCHANGED << running, messages_processed, messages_failed, message,
                    redis, remaining, faults, processed,
                    group, error, metrics, clients >>

\* _process_message up to Step 1: message.get raises on a message that is no
\* dict, preprocess raises ValueError; both return False
Preprocess ==
    /\ pc = "preprocess"
    /\ LET m == message[1]
           res == preprocess(m)
       IN  IF IsDict(m) /\ res.ok
           THEN /\ preprocessed_tx' = Some(res.tx)
                /\ pc' = "extract"
                /\ success' = success
           ELSE /\ preprocessed_tx' = preprocessed_tx
                /\ pc' = "count"
                /\ success' = Some(FALSE)
    /\ message' = Some(preprocess_argument(message[1]))
    /\ UNCHANGED << running, messages_processed, messages_failed,
                    features, redis, remaining, faults, processed, ops,
                    read_failed, write_failed,
                    group, error, metrics, clients >>

\* get_rolling_average writes the default when the card has no average yet
ReadEffectInitAvg(r, op, card_id) ==
    IF op = "rolling_avg" /\ r.hash[card_id].avg_amount = None
    THEN HSet(r, card_id, "avg_amount", Rat(default_avg_amount, 0))
    ELSE r

\* The store after one read of extract_features: zrangebyscore, scard, hget
\* and hgetall leave it as it is
ReadEffect(r, op, card_id) == r

RECURSIVE AfterReads(_, _, _)
AfterReads(i, r, card_id) ==
    IF i > Len(ReadOps) THEN r
    ELSE AfterReads(i + 1, ReadEffect(r, ReadOps[i], card_id), card_id)

\* The sets of reads that may raise in one extraction: none, and while the
\* environment still has a fault to spend, any one read or all of them
FaultSets ==
    {{}} \cup (IF faults > 0
                THEN {{op} : op \in ReadOpSet} \cup {ReadOpSet}
                ELSE {})

\* Step 2: features = self.feature_extractor.extract_features(preprocessed_tx),
\* its reads answered from the store r
ExtractFrom(r) ==
    /\ pc = "extract"
    /\ \E F \in FaultSets :
        /\ features' = Some(extract_features(preprocessed_tx[1], r, F))
        /\ read_failed' = F
        /\ faults' = IF F = {} THEN faults ELSE faults - 1
    /\ redis' = AfterReads(1, redis, preprocessed_tx[1]["card_id"].s)
    /\ ops' = ops \o ReadOps
    /\ pc' = "upd_history"
    /\ UNCHANGED << running, messages_processed, messages_failed, message,
                    preprocessed_tx, success, remaining, processed,
                    write_failed,
                    group, error, metrics, clients >>

\* the store as the four writes of update_card_state leave it
RECURSIVE AfterWrites(_, _, _, _)
AfterWrites(i, r, card_id, tx) ==
    IF i > Len(WriteOps) THEN r
    ELSE AfterWrites(i + 1,
                     CardStateWrite(WriteOps[i], r, card_id, tx, "none").redis,
                     card_id, tx)

\* Extraction moved after the state update of the same message
ExtractAfterUpdate ==
    ExtractFrom(AfterWrites(1, redis, preprocessed_tx[1]["card_id"].s,
                            preprocessed_tx[1]))

\* Step 2 runs before Step 3: the reads see the store as it is
Extract == ExtractFrom(redis)

\* update_card_state gives up at the first write that returned failure
NextWriteAbort(op) ==
    IF write_failed # {} \/ op = "upd_last_ts" THEN "log"
    ELSE CASE op = "upd_history" -> "upd_merchant"
           [] op = "upd_merchant" -> "upd_avg"
           [] op = "upd_avg" -> "upd_last_ts"

\* update_card_state looks at the running flag and stops when it is down
NextWriteInterrupted(op) ==
    IF ~running THEN "final"
    ELSE CASE op = "upd_history" -> "upd_merchant"
           [] op = "upd_merchant" -> "upd_avg"
           [] op = "upd_avg" -> "upd_last_ts"
           [] op = "upd_last_ts" -> "log"

\* the last write left to be made later, the message is counted before it
NextWriteDeferred(op) ==
    CASE op = "upd_history" -> "upd_merchant"
      [] op = "upd_merchant" -> "upd_avg"
      [] op = "upd_avg" -> "log"
      [] op = "upd_last_ts" -> "log"

NextWrite(op) ==
    CASE op = "upd_history" -> "upd_merchant"
      [] op = "upd_merchant" -> "upd_avg"
      [] op = "upd_avg" -> "upd_last_ts"
      [] op = "upd_last_ts" -> "log"

\* card_id = message.get('card_id', ''), formatted into the key
RawCardId(m) == PyStr(m.f["card_id"]).s

\* Step 3: one of the four store writes of update_card_state(card_id,
\* preprocessed_tx)
Write(op) ==
    /\ pc = op
    /\ \E fail \in {"none"} \cup (IF faults > 0 THEN FailPoints(op) ELSE {}) :
        /\ redis' = CardStateWrite(op, redis, RawCardId(message[1]),
                                   preprocessed_tx[1], fail).redis
        /\ faults' = IF fail = "none" THEN faults ELSE faults - 1
        /\ write_failed' = IF fail = "none" THEN write_failed
                           ELSE write_failed \cup {op}
    /\ ops' = Append(ops, op)
    /\ pc' = NextWrite(op)
    /\ processed' =
        IF op = "upd_last_ts"
        THEN Append(processed,
                    [card_id |-> RawCardId(message[1])]
                        @@ TxMember(preprocessed_tx[1]))
        ELSE processed
    /\ UNCHANGED << running, messages_processed, messages_failed, message,
                    preprocessed_tx, features, success, remaining,
                    read_failed,
                    group, error, metrics, clients >>

\* Step 4 outside the try of _process_message: the TypeError of the slice
\* leaves _process_message and the loop, for the handler and the finally
\* clause of consume
LogSuccessEscapes ==
    /\ pc = "log"
    /\ IF message[1].f["card_id"].t \in {"str", "iso"}
       THEN success' = Some(TRUE) /\ pc' = "count"
       ELSE success' = success /\ pc' = "cleanup"
    /\ UNCHANGED << running, messages_processed, messages_failed, message,
                    preprocessed_tx, features, redis, remaining, faults,
                    processed, ops, read_failed, write_failed,
                    group, error, metrics, clients >>

\* Step 4: logger.info(... card_id[:12] ...) and return True; the slice raises
\* TypeError on a card_id that is no string, and the handler returns False
LogSuccess ==
    /\ pc = "log"
    /\ success' = Some(message[1].f["card_id"].t \in {"str", "iso"})
    /\ pc' = "count"
    /\ UNCHANGED << running, messages_processed, messages_failed, message,
                    preprocessed_tx, features, redis, remaining, faults,
                    processed, ops, read_failed,
                    write_failed,
                    group, error, metrics, clients >>

\* if stats_counter >= 100
StatsEvery == 100

\* _print_stats: the number of summary lines it logs, none while no message
\* has been processed
_print_stats(n) == IF n = 0 THEN 0 ELSE 1

\* the offset after the last message the iterator has yielded
Position ==
    messages_processed + messages_failed + (IF message = None THEN 0 ELSE 1)

\* consume that commits the position after each message it has counted
\* (enable_auto_commit off, consumer.commit() at the end of the loop body)
CountCommit ==
    /\ pc = "count"
    /\ IF success[1]
       THEN /\ messages_processed' = messages_processed + 1
            /\ messages_failed' = messages_failed
       ELSE /\ messages_failed' = messages_failed + 1
            /\ messages_processed' = messages_processed
    /\ pc' = "next"
    /\ message' = None
    /\ committed' = Position
    /\ LET counter == IF success[1] THEN stats_counter + 1 ELSE stats_counter
       IN  IF counter >= StatsEvery
           THEN /\ summaries' = summaries + _print_stats(messages_processed')
                /\ stats_counter' = 0
           ELSE /\ summaries' = summaries
                /\ stats_counter' = counter
    /\ UNCHANGED << running, preprocessed_tx, features, success, redis,
                    remaining, faults, processed, ops, read_failed,
                    write_failed, partitions, instances, error, clients >>

\* consume: count the message as processed or failed, and print the
\* statistics when stats_counter, which counts the processed ones, reaches 100
Count ==
    /\ pc = "count"
    /\ IF success[1]
       THEN /\ messages_processed' = messages_processed + 1
            /\ messages_failed' = messages_failed
       ELSE /\ messages_failed' = messages_failed + 1
            /\ messages_processed' = messages_processed
    /\ LET counter == IF success[1] THEN stats_counter + 1 ELSE stats_counter
       IN  IF counter >= StatsEvery
           THEN /\ summaries' = summaries + _print_stats(messages_processed')
                /\ stats_counter' = 0
           ELSE /\ summaries' = summaries
                /\ stats_counter' = counter
    /\ pc' = "next"
    /\ message' = None
    /\ UNCHANGED << running, preprocessed_tx, features, success, redis,
                    remaining, faults, processed, ops, read_failed,
                    write_failed,
                    group, error, clients >>

\* consume without its finally clause: the ZeroDivisionError of the final
\* statistics leaves consume before _cleanup is called
FinalStatisticsEscapes ==
    /\ pc = "final"
    /\ pc' = IF messages_processed = 0 THEN "done" ELSE "cleanup"
    /\ summaries' = summaries + _print_stats(messages_processed)
    /\ UNCHANGED << running, messages_processed, messages_failed, message,
                    preprocessed_tx, features, success, redis, remaining,
                    faults, processed, ops, read_failed, write_failed,
                    group, error, stats_counter, clients >>

\* consume after the loop: the final statistics (which raise when no message
\* was processed), then the finally clause
FinalStatistics ==
    /\ pc = "final"
    /\ pc' = "cleanup"
    /\ summaries' = summaries + _print_stats(messages_processed)
    /\ UNCHANGED << running, messages_processed, messages_failed, message,
                    preprocessed_tx, features, success, redis, remaining,
                    faults, processed, ops, read_failed,
                    write_failed,
                    group, error, stats_counter, clients >>

\* _cleanup
Cleanup ==
    /\ pc = "cleanup"
    /\ pc' = "done"
    /\ closed' = closed \cup {"consumer", "feature_store"}
    /\ cleanups' = cleanups + 1
    /\ UNCHANGED << running, messages_processed, messages_failed, message,
                    preprocessed_tx, features, success, redis, remaining,
                    faults, processed, ops, read_failed,
                    write_failed,
                    group, error, metrics >>

Pipeline ==
    \/ SignalHandler
    \/ InitServices
    \/ CheckRunning
    \/ Preprocess
    \/ Extract
    \/ \E op \in {"upd_history", "upd_merchant", "upd_avg", "upd_last_ts"} :
        Write(op)
    \/ LogSuccess
    \/ Count
    \/ FinalStatistics
    \/ Cleanup

Next == NextMessage(Messages) \/ Pipeline

NextFault == NextMessage(FaultMessages) \/ Pipeline

\* the steps the consumer takes by itself; the arrival of a message and of a
\* signal are the environment's
ConsumerSteps ==
    \/ InitServices
    \/ CheckRunning
    \/ Preprocess
    \/ Extract
    \/ \E op \in {"upd_history", "upd_merchant", "upd_avg", "upd_last_ts"} :
        Write(op)
    \/ LogSuccess
    \/ Count
    \/ FinalStatistics
    \/ Cleanup

\* The consumer with a store that answers every call
Spec == Init /\ [][Next]_vars

\* The consumer with a store of which MaxFaults calls raise
SpecFault == InitFault /\ [][NextFault]_vars

\* The consumer of Spec, which never stops while it has a step to take
SpecLive == Init /\ [][Next]_vars /\ WF_vars(ConsumerSteps)

----------------------------------------------------------------------------
(* preprocess called by itself, as the test suites call it, on records     *)
(* that take their amount, timestamp and coordinates from the values at,   *)
(* next to and far from the limits of each check.                          *)

RawAmounts ==
    {JAbsent, JNull, JStr("abc"), JNum(0), JNum(4), JNum(-4), JNum(-50000),
     JNum(100000), JNum(amount_clip_value), JNum(amount_clip_value + 10),
     JNaN, JInf, JNegInf}

RawTimestamps ==
    {JNull, JInt(min_timestamp - 1), JInt(min_timestamp), JInt(T0),
     JInt(max_timestamp), JInt(max_timestamp + 1), JIso(T0),
     JStr("yesterday"), JNaN, JInf}

RawLats ==
    {JAbsent, JNum(-MaxLat - 1), JNum(-MaxLat), JNum(0), JNum(MaxLat),
     JNum(MaxLat + 1), JNaN}

RawLons ==
    {JAbsent, JNum(-MaxLon - 1), JNum(-MaxLon), JNum(MaxLon),
     JNum(MaxLon + 1), JList}

RawRecords ==
    {JList}
    \cup {Dict([E0.f EXCEPT !["amount"] = a, !["timestamp"] = ts,
                            !["location_lat"] = lat,
                            !["location_lon"] = lon]) :
            a \in RawAmounts, ts \in RawTimestamps, lat \in RawLats,
            lon \in RawLons}

InitPre ==
    /\ pc = "call"
    /\ message \in {Some(r) : r \in RawRecords}
    /\ running = TRUE
    /\ messages_processed = 0
    /\ messages_failed = 0
    /\ preprocessed_tx = None
    /\ features = None
    /\ success = None
    /\ redis = EmptyRedis
    /\ remaining = 0
    /\ faults = 0
    /\ processed = <<>>
    /\ ops = <<>>
    /\ read_failed = {}
    /\ write_failed = {}
    /\ partitions = <<>>
    /\ instances = <<>>
    /\ error = None
    /\ committed = 0
    /\ stats_counter = 0
    /\ summaries = 0
    /\ closed = {}
    /\ cleanups = 0

\* preprocessor.preprocess(transaction): returns the record or raises
PreprocessCall ==
    /\ pc = "call"
    /\ LET res == preprocess(message[1])
       IN  IF res.ok
           THEN /\ preprocessed_tx' = Some(res.tx)
                /\ error' = None
                /\ pc' = "returned"
           ELSE /\ preprocessed_tx' = None
                /\ error' = Some([exc |-> res.exc, err |-> res.err])
                /\ pc' = "raised"
    /\ message' = Some(preprocess_argument(message[1]))
    /\ UNCHANGED << running, messages_processed, messages_failed, features,
                    success, redis, remaining, faults, processed, ops,
                    read_failed, write_failed, group, metrics, clients >>

NextPre == PreprocessCall

\* preprocess applied once to each record of RawRecords
SpecPre == InitPre /\ [][NextPre]_vars

----------------------------------------------------------------------------
(* extract_features called by itself on a store it did not fill, as the    *)
(* test suites call it on a store double: card c1 has any of a few         *)
(* averages, last timestamps, histories and merchant sets.                 *)

StoredAvgs ==
    {None, Some(Rat(0, 0)), Some(Rat(-10000, 0)), Some(Rat(50000, 0)),
     Some(Rat(77500, 0)), Some(Rat(79750, 0))}

StoredLastTs == {None, Some(T0 - 300), Some(T0 + 300)}

StoredEntry(amount, merchant, ts) ==
    [member |-> [amount |-> amount, merchant_id |-> merchant,
                 timestamp |-> ts],
     score |-> ts]

StoredHistories ==
    {{},
     {StoredEntry(100000, "m1", T0 - 300)},
     {StoredEntry(100000, "m1", T0 - 300),
      StoredEntry(50000, "m2", T0 - 3000),
      StoredEntry(50000, "m2", T0 - 86400)}}

StoredMerchants == {{}, {"m1", "m2"}}

\* the TTL of an existing key, as the writes leave it
TtlOf(r, c) ==
    [tx_history |-> IF KeyExists(r, c, "tx_history")
                    THEN Some(TTL_TX_HISTORY) ELSE None,
     merchants |-> IF KeyExists(r, c, "merchants")
                   THEN Some(TTL_MERCHANT_SET) ELSE None,
     stats |-> IF KeyExists(r, c, "stats")
               THEN Some(TTL_CARD_STATS) ELSE None]

StoreWith(avg, last, history, merchants) ==
    LET r == [EmptyRedis EXCEPT
                !.hash["c1"] = [avg_amount |-> avg,
                                last_tx_timestamp |-> last],
                !.zset["c1"] = history,
                !.sset["c1"] = merchants]
    IN  [r EXCEPT !.ttl["c1"] = TtlOf(r, "c1")]

Stores ==
    {StoreWith(avg, last, history, merchants) :
        avg \in StoredAvgs, last \in StoredLastTs,
        history \in StoredHistories, merchants \in StoredMerchants}

\* the preprocessed events extract_features is given
ExtractEvents ==
    {preprocess(e).tx :
        e \in {E0, Event("c1", "m2", 50000, T0), Event("c2", "m1", 50000, T0),
               With("location_lat", JNum(MaxLat))}}

InitExtract ==
    /\ pc = "extract"
    /\ preprocessed_tx \in {Some(tx) : tx \in ExtractEvents}
    /\ redis \in Stores
    /\ message = None
    /\ running = TRUE
    /\ messages_processed = 0
    /\ messages_failed = 0
    /\ features = None
    /\ success = None
    /\ remaining = 0
    /\ faults = MaxFaults
    /\ processed = <<>>
    /\ ops = <<>>
    /\ read_failed = {}
    /\ write_failed = {}
    /\ partitions = <<>>
    /\ instances = <<>>
    /\ error = None
    /\ committed = 0
    /\ stats_counter = 0
    /\ summaries = 0
    /\ closed = {}
    /\ cleanups = 0

NextExtract == Extract

\* extract_features applied once to each event on each store of Stores, with
\* no read, one read or every read failing
SpecExtract == InitExtract /\ [][NextExtract]_vars

----------------------------------------------------------------------------
(* update_card_state called on a store whose keys were written some time   *)
(* ago: the TTL of each key of card c1 has run down by the time elapsed.   *)

Elapsed == {0, 86000}

Aged(r, c, elapsed) ==
    [r EXCEPT !.ttl[c] =
        [key \in DOMAIN @ |->
            IF @[key] = None THEN None ELSE Some(@[key][1] - elapsed)]]

AgedStores == {Aged(r, "c1", elapsed) : r \in Stores, elapsed \in Elapsed}

UpdateEvents ==
    {E0, Event("c1", "m2", 50000, T0 + 86400), Event("c2", "m1", 50000, T0)}

InitUpdate ==
    /\ pc = "upd_history"
    /\ \E e \in UpdateEvents :
        /\ message = Some(e)
        /\ preprocessed_tx = Some(preprocess(e).tx)
    /\ redis \in AgedStores
    /\ running = TRUE
    /\ messages_processed = 0
    /\ messages_failed = 0
    /\ features = None
    /\ success = None
    /\ remaining = 0
    /\ faults = MaxFaults
    /\ processed = <<>>
    /\ ops = <<>>
    /\ read_failed = {}
    /\ write_failed = {}
    /\ partitions = <<>>
    /\ instances = <<>>
    /\ error = None
    /\ committed = 0
    /\ stats_counter = 0
    /\ summaries = 0
    /\ closed = {}
    /\ cleanups = 0

NextUpdate ==
    \E op \in {"upd_history", "upd_merchant", "upd_avg", "upd_last_ts"} :
        Write(op)

\* update_card_state applied once to each event on each store of AgedStores,
\* with at most MaxFaults of its Redis calls failing
SpecUpdate == InitUpdate /\ [][NextUpdate]_vars

----------------------------------------------------------------------------
(* update_card_state called for one event after another on a store that    *)
(* starts empty, as Step 3 of _process_message calls it for the records    *)
(* preprocess has returned, among them one with a NaN amount.              *)

MaxStoreCalls == 2

StoreEvents ==
    {E0,
     Event("c1", "m2", 50000, T0 + 600),
     Event("c2", "m1", 50000, T0),
     With("amount", JNum(10)),
     With("amount", JNaN),
     With("timestamp", JInt(min_timestamp))}

InitStore ==
    /\ pc = "log"
    /\ message = None
    /\ preprocessed_tx = None
    /\ redis = EmptyRedis
    /\ running = TRUE
    /\ messages_processed = 0
    /\ messages_failed = 0
    /\ features = None
    /\ success = None
    /\ remaining = MaxStoreCalls
    /\ faults = MaxFaults
    /\ processed = <<>>
    /\ ops = <<>>
    /\ read_failed = {}
    /\ write_failed = {}
    /\ partitions = <<>>
    /\ instances = <<>>
    /\ error = None
    /\ committed = 0
    /\ stats_counter = 0
    /\ summaries = 0
    /\ closed = {}
    /\ cleanups = 0

\* self.feature_extractor.update_card_state(card_id, preprocessed_tx) is
\* entered for the next message that preprocess accepts
UpdateCardState ==
    /\ pc = "log"
    /\ remaining > 0
    /\ \E e \in StoreEvents :
        /\ preprocess(e).ok
        /\ message' = Some(e)
        /\ preprocessed_tx' = Some(preprocess(e).tx)
    /\ remaining' = remaining - 1
    /\ pc' = "upd_history"
    /\ ops' = <<>>
    /\ write_failed' = {}
    /\ UNCHANGED << running, messages_processed, messages_failed, features,
                    success, redis, faults, processed, read_failed,
                    group, error, metrics, clients >>

NextStore ==
    \/ UpdateCardState
    \/ \E op \in {"upd_history", "upd_merchant", "upd_avg", "upd_last_ts"} :
        Write(op)

SpecStore == InitStore /\ [][NextStore]_vars

----------------------------------------------------------------------------
(* The consumer and its offsets.  CONSUMER_CONFIG sets enable_auto_commit  *)
(* with auto_commit_interval_ms = 1000: the KafkaConsumer commits the      *)
(* position it has reached when it polls and the interval has passed, and  *)
(* when it is closed.  consumer.py never commits by itself.                *)

\* a topic of events and of messages that preprocess rejects
CommitMessages ==
    {Event("c1", "m1", 100000, T0),
     Event("c1", "m2", 50000, T0 + 600),
     With("card_id", JAbsent),
     With("amount", JNum(0))}

InitCommit == InitCommon /\ remaining = MaxFaultMsgs /\ faults = 0

\* for message in self.consumer, with the commit the poll behind it makes
\* when the commit interval has passed
NextMessageAutoCommit(topic) ==
    /\ pc = "next"
    /\ remaining > 0
    /\ \E m \in topic : message' = Some(m)
    /\ remaining' = remaining - 1
    /\ pc' = "check"
    /\ \E interval_passed \in BOOLEAN :
        committed' = IF interval_passed THEN Position ELSE committed
    /\ UNCHANGED << running, messages_processed, messages_failed,
                    preprocessed_tx, features, success, redis, faults,
                    processed, ops, read_failed, write_failed,
                    partitions, instances, error, metrics, clients >>

\* _cleanup: self.consumer.close() commits the position, then the store
\* client is closed
CleanupAutoCommit ==
    /\ pc = "cleanup"
    /\ pc' = "done"
    /\ committed' = Position
    /\ closed' = closed \cup {"consumer", "feature_store"}
    /\ cleanups' = cleanups + 1
    /\ UNCHANGED << running, messages_processed, messages_failed, message,
                    preprocessed_tx, features, success, redis, remaining,
                    faults, processed, ops, read_failed, write_failed,
                    partitions, instances, error, metrics >>

NextCommit ==
    \/ NextMessageAutoCommit(CommitMessages)
    \/ SignalHandler
    \/ InitServices
    \/ CheckRunning
    \/ Preprocess
    \/ Extract
    \/ \E op \in {"upd_history", "upd_merchant", "upd_avg", "upd_last_ts"} :
        Write(op)
    \/ LogSuccess
    \/ Count
    \/ FinalStatistics
    \/ CleanupAutoCommit

\* The consumer of Spec with the offsets its KafkaConsumer commits
SpecCommit == InitCommit /\ [][NextCommit]_vars

----------------------------------------------------------------------------
(* A long run of the consumer: a topic of one event and one message that   *)
(* preprocess rejects, long enough for the statistics counter to reach 100 *)

MaxStatsMsgs == 100

\* the event's amount is the default average, which the average of the card
\* then keeps
StatsMessages ==
    {Event("c1", "m1", default_avg_amount, T0), With("amount", JNum(0))}

InitStats == InitCommon /\ remaining = MaxStatsMsgs /\ faults = 0

NextStats == NextMessage(StatsMessages) \/ Pipeline

SpecStats == InitStats /\ [][NextStats]_vars

----------------------------------------------------------------------------
(* consume and the ways its loop ends: the break after a signal, the end of
   the message iterator, and an exception raised out of the loop *)

\* for message in self.consumer: the iterator is exhausted (StopIteration),
\* the loop ends and the final statistics follow
IteratorEnds ==
    /\ pc = "next"
    /\ pc' = "final"
    /\ UNCHANGED << running, messages_processed, messages_failed, message,
                    preprocessed_tx, features, success, redis, remaining,
                    faults, processed, ops, read_failed, write_failed,
                    group, error, metrics, clients >>

\* for message in self.consumer: the iterator raises (a value that does not
\* deserialize, a broker error); except Exception logs it and the finally
\* clause follows, the final statistics are skipped
IteratorRaises ==
    /\ pc = "next"
    /\ pc' = "cleanup"
    /\ UNCHANGED << running, messages_processed, messages_failed, message,
                    preprocessed_tx, features, success, redis, remaining,
                    faults, processed, ops, read_failed, write_failed,
                    group, error, metrics, clients >>

NextShutdown ==
    \/ NextMessage(FaultMessages)
    \/ Pipeline
    \/ IteratorEnds
    \/ IteratorRaises

SpecShutdown == InitFault /\ [][NextShutdown]_vars

----------------------------------------------------------------------------
(* A consumer group: instances of the consumer, each reading the partitions *)
(* the broker assigned to it, all on one store.  The topic is written by   *)
(* producer.py.  A call of the store is atomic; update_rolling_average is  *)
(* taken call by call, the other operations as a whole.  Signals and store *)
(* failures are left to the single consumer above.                         *)

Instances == {"i1", "i2"}

\* the partitions of the topic (TOPIC_PARTITIONS of them), and the instance
\* that owns each
Partitions == {0, 1}
Assignment == [p \in Partitions |-> IF p = 0 THEN "i1" ELSE "i2"]

\* _send_message: key = message.get('card_id', ''), which key_serializer
\* encodes, or turns into None when it is empty
PartitionKey(m) ==
    IF m.f["card_id"].s = "" THEN None ELSE Some(m.f["card_id"].s)

\* producer.send: a keyed message goes to the partition of the hash of its
\* key, a message without a key to any partition
KeyHash(key) == IF key = "c1" THEN 0 ELSE 1

PartitionsOf(m) ==
    IF PartitionKey(m) = None THEN Partitions
    ELSE {KeyHash(PartitionKey(m)[1])}

\* what _transform_row makes of the rows of the dataset
GroupMessages ==
    {Event("c1", "m1", 100000, T0),
     Event("c2", "m1", 50000, T0),
     Event("", "m1", 100000, T0),
     Event("", "m2", 50000, T0 + 600)}

Idle ==
    [pc |-> "poll", tx |-> None, features |-> None, old_avg |-> None,
     messages_processed |-> 0, messages_failed |-> 0]

InitGroup ==
    /\ pc = "init"
    /\ running = TRUE
    /\ messages_processed = 0
    /\ messages_failed = 0
    /\ message = None
    /\ preprocessed_tx = None
    /\ features = None
    /\ success = None
    /\ redis = EmptyRedis
    /\ processed = <<>>
    /\ ops = <<>>
    /\ read_failed = {}
    /\ write_failed = {}
    /\ faults = 0
    /\ remaining = MaxMsgs
    /\ partitions = [p \in Partitions |-> <<>>]
    /\ instances = [i \in Instances |-> Idle]
    /\ error = None
    /\ committed = 0
    /\ stats_counter = 0
    /\ summaries = 0
    /\ closed = {}
    /\ cleanups = 0

\* TransactionProducer._send_message
Send ==
    /\ remaining > 0
    /\ \E m \in GroupMessages : \E p \in PartitionsOf(m) :
        partitions' = [partitions EXCEPT ![p] = Append(@, m)]
    /\ remaining' = remaining - 1
    /\ UNCHANGED << consumer, committed, metrics, redis, instances, clients >>

\* instance i takes the next message of one of its partitions and
\* preprocesses it
IPoll(i) ==
    /\ instances[i].pc = "poll"
    /\ \E p \in Partitions :
        /\ Assignment[p] = i
        /\ partitions[p] # <<>>
        /\ partitions' = [partitions EXCEPT ![p] = Tail(@)]
        /\ LET res == preprocess(Head(partitions[p])) IN
           instances' =
             [instances EXCEPT ![i] =
                IF res.ok
                THEN [@ EXCEPT !.pc = "extract", !.tx = Some(res.tx)]
                ELSE [@ EXCEPT !.messages_failed = @ + 1]]
    /\ UNCHANGED << consumer, committed, metrics, redis, remaining, clients >>

ICard(i) == instances[i].tx[1]["card_id"].s

IExtract(i) ==
    /\ instances[i].pc = "extract"
    /\ instances' =
        [instances EXCEPT ![i] =
            [@ EXCEPT !.pc = "upd_history",
                      !.features =
                        Some(extract_features(instances[i].tx[1], redis, {}))]]
    /\ redis' = AfterReads(1, redis, ICard(i))
    /\ UNCHANGED << consumer, committed, metrics, remaining, partitions, clients >>

\* add_to_transaction_history, add_merchant_to_set
IWrite(i, op) ==
    /\ instances[i].pc = op
    /\ redis' = CardStateWrite(op, redis, ICard(i), instances[i].tx[1],
                               "none").redis
    /\ instances' =
        [instances EXCEPT ![i].pc =
            IF op = "upd_history" THEN "upd_merchant" ELSE "avg_hget"]
    /\ UNCHANGED << consumer, committed, metrics, remaining, partitions, clients >>

\* update_rolling_average: old_avg_str = hget(key, 'avg_amount')
IAvgGet(i) ==
    /\ instances[i].pc = "avg_hget"
    /\ instances' =
        [instances EXCEPT ![i] =
            [@ EXCEPT !.pc = "avg_hset",
                      !.old_avg = Some(StoredAvgOr75(redis, ICard(i)))]]
    /\ UNCHANGED << consumer, committed, metrics, redis, remaining, partitions, clients >>

\* update_rolling_average: hset(key, 'avg_amount', new_avg)
IAvgSet(i) ==
    /\ instances[i].pc = "avg_hset"
    /\ redis' = HSet(redis, ICard(i), "avg_amount",
                     NewAvg(instances[i].tx[1]["amount"].v,
                            instances[i].old_avg[1]))
    /\ instances' = [instances EXCEPT ![i].pc = "avg_expire"]
    /\ UNCHANGED << consumer, committed, metrics, remaining, partitions, clients >>

\* update_rolling_average: expire(key, 2592000)
IAvgExpire(i) ==
    /\ instances[i].pc = "avg_expire"
    /\ redis' = Expire(redis, ICard(i), "stats", TTL_CARD_STATS)
    /\ instances' =
        [instances EXCEPT ![i] =
            [@ EXCEPT !.pc = "upd_last_ts", !.old_avg = None]]
    /\ UNCHANGED << consumer, committed, metrics, remaining, partitions, clients >>

\* update_last_transaction_timestamp, the log line and the counter
ILastTs(i) ==
    /\ instances[i].pc = "upd_last_ts"
    /\ redis' = CardStateWrite("upd_last_ts", redis, ICard(i),
                               instances[i].tx[1], "none").redis
    /\ instances' =
        [instances EXCEPT ![i] =
            [@ EXCEPT !.pc = "poll", !.tx = None, !.features = None,
                      !.messages_processed = @ + 1]]
    /\ UNCHANGED << consumer, committed, metrics, remaining, partitions, clients >>

NextGroup ==
    \/ Send
    \/ \E i \in Instances :
        \/ IPoll(i)
        \/ IExtract(i)
        \/ IWrite(i, "upd_history")
        \/ IWrite(i, "upd_merchant")
        \/ IAvgGet(i)
        \/ IAvgSet(i)
        \/ IAvgExpire(i)
        \/ ILastTs(i)

\* Two instances of the consumer in one group
SpecGroup == InitGroup /\ [][NextGroup]_vars

----------------------------------------------------------------------------
(* What the claims speak of *)

Updating == {"upd_history", "upd_merchant", "upd_avg", "upd_last_ts"}

\* the event whose features are in hand, and its card
Ev == TxMember(preprocessed_tx[1])
EvCard == preprocessed_tx[1]["card_id"].s

\* processed[1..EarlierLen] are the events processed before the one whose
\* features are in hand (whose own entry is appended by the last write)
EarlierLen ==
    IF pc \in Updating THEN Len(processed) ELSE Len(processed) - 1

EarlierOf(card) == {i \in 1..EarlierLen : processed[i].card_id = card}

EarlierInWindow(card, w) ==
    {i \in EarlierOf(card) :
        Ev.timestamp - w <= processed[i].timestamp
        /\ processed[i].timestamp <= Ev.timestamp}

RECURSIVE SumProcessed(_)
SumProcessed(idx) ==
    IF idx = {} THEN 0
    ELSE LET i == CHOOSE j \in idx : TRUE
         IN  processed[i].amount + SumProcessed(idx \ {i})

IsPrefix(s, t) ==
    Len(s) <= Len(t) /\ \A i \in 1..Len(s) : s[i] = t[i]

----------------------------------------------------------------------------
\* C1: for every message, every store read of extract_features precedes every
\* store write of update_card_state, and the first event of a card on an empty
\* store is given tx_count_10m = tx_count_1h = tx_count_24h = 0,
\* time_since_last_tx = 0 and avg_tx_amount_30d = 75.0, also once its own
\* state update has been written.
C1_ReadsBeforeWrites ==
    /\ IsPrefix(ops, ReadOps \o WriteOps)
    /\ (features # None /\ EarlierOf(EvCard) = {}) =>
            /\ features[1].tx_count_10m = 0
            /\ features[1].tx_count_1h = 0
            /\ features[1].tx_count_24h = 0
            /\ features[1].time_since_last_tx = 0
            /\ features[1].avg_tx_amount_30d = 75000

\* the first event of card c1 has been extracted and written, and is counted
C1_Witness ==
    /\ pc = "count"
    /\ success = Some(TRUE)
    /\ Len(processed) = 1
    /\ EvCard = "c1"
    /\ redis.zset["c1"] # {}
    /\ redis.hash["c1"].last_tx_timestamp = Some(Ev.timestamp)
    /\ features[1].tx_count_24h = 0

\* C2: with no store failure, tx_count_w is the number of earlier processed
\* events of the card with e.timestamp - w <= t <= e.timestamp, and
\* total_amount_w the sum of their amounts, for w in {600, 3600, 86400}.
C2_VelocityCountsEarlierEvents ==
    features # None =>
        /\ features[1].tx_count_10m =
                Cardinality(EarlierInWindow(EvCard, 600))
        /\ features[1].tx_count_1h =
                Cardinality(EarlierInWindow(EvCard, 3600))
        /\ features[1].tx_count_24h =
                Cardinality(EarlierInWindow(EvCard, 86400))
        /\ features[1].total_amount_10m =
                SumProcessed(EarlierInWindow(EvCard, 600))
        /\ features[1].total_amount_1h =
                SumProcessed(EarlierInWindow(EvCard, 3600))
        /\ features[1].total_amount_24h =
                SumProcessed(EarlierInWindow(EvCard, 86400))

\* C3: get_transaction_history(card, w, t) returns only entries with
\* t - w <= timestamp <= t, whatever the history holds.
C3_HistoryWithinWindow ==
    \A c \in CardIds, w \in {600, 3600, 86400}, t \in Timestamps :
        \A tx \in get_transaction_history(redis, c, w, t, "none") :
            t - w <= tx.timestamp /\ tx.timestamp <= t

\* the history of c1 holds an entry later than the event in hand, and the
\* event was given a non-empty 24 h window
C3_Witness ==
    /\ pc = "upd_history"
    /\ EvCard = "c1"
    /\ \E e \in redis.zset["c1"] : e.score > Ev.timestamp
    /\ features[1].tx_count_24h >= 1

\* C4: update_rolling_average for event e leaves avg_amount equal to
\* 0.1 * e.amount + 0.9 * prev_avg, prev_avg being the value stored before,
\* or 75.0 when the card had none; at every event of a run.
C4_RollingAverageStep ==
    [][(pc = "upd_avg" /\ pc' = "upd_last_ts") =>
        LET stored == redis.hash[EvCard].avg_amount
            prev == IF stored = None THEN Rat(75000, 0) ELSE stored[1]
            new == (redis.hash[EvCard].avg_amount)'
        IN  /\ new # None
            /\ new[1].k <= prev.k + 1
            \* 10 * new = amount + 9 * prev, both sides times 10^prev.k
            /\ new[1].n * Pow10(prev.k + 1 - new[1].k)
                    = Ev.amount * Pow10(prev.k) + 9 * prev.n]_vars

\* the average of c1 after 100.00 and then 50.00: 75 -> 77.5 -> 74.75
C4_Witness ==
    /\ pc = "upd_last_ts"
    /\ EvCard = "c1"
    /\ EarlierOf("c1") # {}
    /\ Ev.amount = 50000
    /\ redis.hash["c1"].avg_amount = Some(Rat(74750, 0))

C6_TimeSinceLastTxNonNegative ==
    features # None => features[1].time_since_last_tx >= 0

\* C7: unique_merchants_24h of event e is the number of distinct merchant_ids
\* among the earlier processed events of the card whose timestamp lies within
\* the 86400 s before e.timestamp.
C7_UniqueMerchantsOfLast24h ==
    features # None =>
        features[1].unique_merchants_24h =
            Cardinality({processed[i].merchant_id :
                            i \in EarlierInWindow(EvCard, 86400)})

\* C8: every card key that exists has a TTL > 0, also after a write operation
\* of which one Redis call raised.
C8_EveryKeyHasTtl ==
    \A c \in CardIds, key \in {"tx_history", "merchants", "stats"} :
        KeyExists(redis, c, key) =>
            redis.ttl[c][key] # None /\ redis.ttl[c][key][1] > 0

\* C9: a message that preprocessing rejects makes no store read and no store
\* write, adds one to messages_failed and nothing to messages_processed, and
\* the loop goes on to the next message.
C9_RejectedMessageSkipped ==
    [][(message # None /\ message[1] \in BadMessages
            /\ pc \in {"preprocess", "count"} /\ pc' # pc) =>
        /\ redis' = redis
        /\ ops' = <<>>
        /\ features' = None
        /\ messages_processed' = messages_processed
        /\ pc = "preprocess" =>
                pc' = "count" /\ messages_failed' = messages_failed
        /\ pc = "count" =>
                pc' = "next" /\ messages_failed' = messages_failed + 1]_vars

\* a message is being extracted after the loop has counted a rejected one
C9_Witness ==
    /\ messages_failed = 1
    /\ messages_processed = 0
    /\ pc = "upd_history"
    /\ features # None

\* C10: extract_features returns a vector whatever reads raise; a read that
\* raises gives its default (count 0 and total 0 of its window, 0 unique
\* merchants, time_since_last_tx 0, average 75.0, merchant features 0.5,
\* 0.002, 100), and a read that does not raise gives the stored value.
HistoryRead(w) ==
    {e \in redis.zset[EvCard] :
        Ev.timestamp - w <= e.score /\ e.score <= Ev.timestamp}

RECURSIVE SumScored(_)
SumScored(es) ==
    IF es = {} THEN 0
    ELSE LET e == CHOOSE x \in es : TRUE
         IN  e.member.amount + SumScored(es \ {e})

C10_ReadFailureDefaults ==
    pc = "upd_history" =>
        LET f == features[1]
            last == redis.hash[EvCard].last_tx_timestamp
            avg == redis.hash[EvCard].avg_amount
            mh == redis.merchant[Ev.merchant_id]
            Failed(op) == op \in read_failed
        IN  /\ features # None
            /\ f.tx_count_10m =
                IF Failed("history_10m") THEN 0
                ELSE Cardinality(HistoryRead(600))
            /\ f.total_amount_10m =
                IF Failed("history_10m") THEN 0 ELSE SumScored(HistoryRead(600))
            /\ f.tx_count_1h =
                IF Failed("history_1h") THEN 0
                ELSE Cardinality(HistoryRead(3600))
            /\ f.total_amount_1h =
                IF Failed("history_1h") THEN 0 ELSE SumScored(HistoryRead(3600))
            /\ f.tx_count_24h =
                IF Failed("history_24h") THEN 0
                ELSE Cardinality(HistoryRead(86400))
            /\ f.total_amount_24h =
                IF Failed("history_24h") THEN 0
                ELSE SumScored(HistoryRead(86400))
            /\ f.unique_merchants_24h =
                IF Failed("merchant_count") THEN 0
                ELSE Cardinality(redis.sset[EvCard])
            /\ f.time_since_last_tx =
                IF Failed("last_ts") \/ last = None THEN 0
                ELSE Ev.timestamp - last[1]
            \* the stored average to the nearest cent (10 mills)
            /\ f.avg_tx_amount_30d % 10 = 0
            /\ IF Failed("rolling_avg") \/ avg = None
               THEN f.avg_tx_amount_30d = 75000
               ELSE 2 * Abs(f.avg_tx_amount_30d * Pow10(avg[1].k) - avg[1].n)
                        <= 10 * Pow10(avg[1].k)
            /\ f.merchant_risk_score =
                IF Failed("merchant_features") \/ DOMAIN mh = {} THEN 500
                ELSE mh.risk_score
            /\ f.merchant_fraud_rate =
                IF Failed("merchant_features") \/ DOMAIN mh = {} THEN 2
                ELSE mh.fraud_rate
            /\ f.merchant_total_transactions =
                IF Failed("merchant_features") \/ DOMAIN mh = {} THEN 100
                ELSE mh.total_transactions

\* every read raised for an event of a card with a history, a stored average
\* and a merchant with stored features, and the vector is the cold-start one
C10_Witness ==
    /\ pc = "upd_history"
    /\ read_failed = ReadOpSet
    /\ redis.zset[EvCard] # {}
    /\ redis.sset[EvCard] # {}
    /\ redis.hash[EvCard].avg_amount # None
    /\ redis.hash[EvCard].last_tx_timestamp # None
    /\ redis.hash[EvCard].last_tx_timestamp[1] # Ev.timestamp
    /\ DOMAIN redis.merchant[Ev.merchant_id] # {}
    /\ features[1].tx_count_24h = 0
    /\ features[1].avg_tx_amount_30d = 75000
    /\ features[1].merchant_total_transactions = 100

\* one read raised and the others returned what is stored
C10_WitnessSingle ==
    /\ pc = "upd_history"
    /\ read_failed = {"last_ts"}
    /\ features[1].time_since_last_tx = 0
    /\ features[1].tx_count_24h = 1
    /\ features[1].unique_merchants_24h = 1
    /\ features[1].avg_tx_amount_30d = 77500

\* C11: a valid event of which one or more writes of update_card_state failed
\* has its features extracted and is returned as a success by
\* _process_message, so that the loop counts it in messages_processed and not
\* in messages_failed.
C11_WriteFailureNotFailed ==
    (pc = "count" /\ write_failed # {}) =>
        features # None /\ success = Some(TRUE)

\* C12: update_card_state issues append history, add merchant, bump EMA, set
\* last timestamp in this order whatever the earlier ones returned, and each
\* write that does not fail is applied to the store.
WriteIndex(op) == CHOOSE i \in 1..Len(WriteOps) : WriteOps[i] = op

C12_WritesIndependent ==
    [][(pc \in Updating /\ pc' # pc) =>
        LET i == WriteIndex(pc) IN
        /\ pc' = IF i < Len(WriteOps) THEN WriteOps[i + 1] ELSE "log"
        /\ ops' = Append(ops, pc)
        /\ pc \notin write_failed' =>
            CASE pc = "upd_history" ->
                    [member |-> Ev, score |-> Ev.timestamp]
                        \in (redis.zset[EvCard])'
              [] pc = "upd_merchant" ->
                    Ev.merchant_id \in (redis.sset[EvCard])'
              [] pc = "upd_avg" ->
                    /\ (redis.hash[EvCard].avg_amount)' # None
                    /\ IsEmaStep((redis.hash[EvCard].avg_amount)'[1],
                                 StoredAvgOr75(redis, EvCard), Ev.amount)
              [] pc = "upd_last_ts" ->
                    (redis.hash[EvCard].last_tx_timestamp)'
                        = Some(Ev.timestamp)]_vars

\* the first write of an event failed and the three after it were applied
C12_Witness ==
    /\ pc = "log"
    /\ write_failed = {"upd_history"}
    /\ redis.zset[EvCard] = {}
    /\ Ev.merchant_id \in redis.sset[EvCard]
    /\ redis.hash[EvCard].avg_amount # None
    /\ redis.hash[EvCard].last_tx_timestamp = Some(Ev.timestamp)

\* the positions of the loop at which a message is being processed
InFlight == {"preprocess", "extract"} \cup Updating \cup {"log", "count"}

\* _cleanup has closed the log consumer and the store client
Closed == pc = "done"

\* C13: after a shutdown signal the consumer eventually leaves the loop and
\* closes the store client and the log consumer, whether or not a further
\* message arrives.
C13_SignalLeadsToClose ==
    (~running) ~> Closed

\* C14: after a shutdown signal no new message is taken from the log, and a
\* message the loop has taken is dispatched to _process_message, never
\* dropped.
C14_NoMessageTakenAndDropped ==
    [][/\ (~running /\ message' # message) => message' = None
       /\ (pc = "check" /\ pc' # pc) => pc' = "preprocess"]_vars

\* C15: a signal changes nothing but the flag, the flag is examined only
\* between events, and an event in flight goes through all of its writes
\* before the loop is left and the store client closed.
C15_InFlightEventCompletes ==
    [][/\ (running /\ ~running') => UNCHANGED << pc, ops, redis >>
       /\ (pc \in InFlight /\ pc' # pc) => pc' \in InFlight \cup {"next"}
       /\ (pc \in Updating /\ pc' # pc) =>
            /\ ops' = Append(ops, pc)
            /\ pc' = IF WriteIndex(pc) < Len(WriteOps)
                     THEN WriteOps[WriteIndex(pc) + 1] ELSE "log"
       /\ pc' = "final" => pc = "check"
       /\ Closed' => pc \in {"cleanup", "done"}]_vars

\* the signal came while the event was in flight, and the writes went on
C15_Witness ==
    /\ ~running
    /\ pc = "upd_last_ts"
    /\ ops = ReadOps \o SubSeq(WriteOps, 1, 3)

\* C16: one message at a time, in the order of the log: the loop takes or
\* drops a message only when every store read and write of the message
\* before is done, and every store call is made for the message in hand.
C16_OneEventAtATime ==
    [][/\ message' # message =>
            /\ pc \in {"next", "count"}
            /\ ops \in {<<>>, ReadOps \o WriteOps}
       /\ (ops' # ops /\ ops' # <<>>) =>
            /\ message' = message
            /\ message # None
            /\ IsPrefix(ops', ReadOps \o WriteOps)]_vars

\* the second event of a card is read after the first was written in full
C16_Witness ==
    /\ pc = "upd_history"
    /\ ops = ReadOps
    /\ EarlierOf(EvCard) # {}
    /\ messages_processed >= 1

\* C17: instances that own disjoint partitions never work on the keys of one
\* card at the same time, and the value update_rolling_average has read is
\* still the stored one when it writes the new average, so that no update of
\* the average is lost.
Busy(i) == instances[i].pc # "poll"

C17_NoInterleavingOnCard ==
    /\ \A i, j \in Instances :
        (i # j /\ Busy(i) /\ Busy(j)) => ICard(i) # ICard(j)
    /\ \A i \in Instances :
        instances[i].pc = "avg_hset" =>
            instances[i].old_avg[1] = StoredAvgOr75(redis, ICard(i))

\* C18: processing again an event that was processed before moves the stored
\* average a of the card by one more step, to 0.1 * amount + 0.9 * a: the
\* change is 0.1 * (amount - a), of size 0.1 * |amount - a|.
Replayed ==
    \E i \in 1..Len(processed) :
        processed[i] = [card_id |-> EvCard] @@ Ev

C18_ReplayOneEmaStep ==
    [][(pc = "upd_avg" /\ pc' # pc /\ Replayed) =>
        LET a == redis.hash[EvCard].avg_amount
            new == (redis.hash[EvCard].avg_amount)'
            \* 10 * new, a and amount, each times 10^a.k
            new10 == new[1].n * Pow10(a[1].k + 1 - new[1].k)
            change10 == new10 - 10 * a[1].n
            gap == Ev.amount * Pow10(a[1].k) - a[1].n
        IN  /\ a # None /\ new # None
            /\ new[1].k <= a[1].k + 1
            /\ change10 = gap
            /\ Abs(change10) = Abs(gap)]_vars

\* 100.00 on card c1 twice: 75 -> 77.5 -> 79.75
C18_Witness ==
    /\ pc = "upd_last_ts"
    /\ Replayed
    /\ Ev.amount = 100000
    /\ Len(processed) = 1
    /\ redis.hash[EvCard].avg_amount = Some(Rat(79750, 0))

PyEq(x, y) == x = y /\ x.t # "nan"

C20_PreprocessIdempotent ==
    preprocessed_tx # None =>
        LET again == preprocess(Dict(preprocessed_tx[1]))
        IN  /\ again.ok
            /\ \A f \in Fields : PyEq(again.tx[f], preprocessed_tx[1][f])

RawAmount == message[1].f["amount"]

C22_AmountInRange ==
    /\ pc = "returned" =>
        LET out == preprocessed_tx[1]["amount"]
        IN  /\ out.t = "num"
            /\ 0 < out.v /\ out.v <= amount_clip_value
            /\ (RawAmount.t = "num" /\ RawAmount.v < 0
                    /\ -RawAmount.v <= amount_clip_value) =>
                        out.v = Round2(-RawAmount.v)
            /\ (RawAmount.t = "num" /\ RawAmount.v > amount_clip_value) =>
                        out.v = amount_clip_value
    /\ (pc # "call" /\ IsDict(message[1]) /\ RawAmount.t = "num"
            /\ Round2(Abs(RawAmount.v)) = 0) =>
                /\ pc = "raised"
                /\ (/\ validate_schema(message[1])
                    /\ CastOk(HandleMissingValues(message[1].f))
                    /\ ParseTimestampOk(message[1].f["timestamp"])) =>
                        error = Some([exc |-> "ValueError", err |-> "range"])

\* C23: preprocess returns a record or raises a validation error (a
\* ValueError), never another error, and a record without a required field,
\* or with a null one, is rejected by the schema check whatever its other
\* fields hold.
C23_OnlyValidationErrors ==
    /\ pc = "raised" => error[1].exc = "ValueError"
    /\ (pc # "call" /\ ~validate_schema(message[1])) =>
            error = Some([exc |-> "ValueError", err |-> "schema"])

\* C24: a record whose other fields are valid is accepted if and only if
\* 946684800 <= timestamp <= 4102444800, location_lat is absent or within
\* [-90, 90] and location_lon is absent or within [-180, 180], the limits
\* included.
Raw(field) == message[1].f[field]

AmountValid ==
    \/ Raw("amount").t = "inf"
    \/ Raw("amount").t = "num" /\ Round2(Abs(Raw("amount").v)) > 0

CoordinateWithin(field, limit) ==
    \/ Raw(field).t \in {"absent", "null"}
    \/ /\ Raw(field).t \in {"int", "num"}
       /\ -limit <= Raw(field).v /\ Raw(field).v <= limit

C24_InclusiveRanges ==
    (pc # "call" /\ IsDict(message[1]) /\ AmountValid) =>
        (pc = "returned" <=>
            /\ Raw("timestamp").t \in {"int", "iso"}
            /\ min_timestamp <= Raw("timestamp").v
            /\ Raw("timestamp").v <= max_timestamp
            /\ CoordinateWithin("location_lat", MaxLat)
            /\ CoordinateWithin("location_lon", MaxLon))

\* a record at three limits at once is accepted
C24_Witness ==
    /\ pc = "returned"
    /\ Raw("timestamp") = JInt(max_timestamp)
    /\ Raw("location_lat") = JNum(MaxLat)
    /\ Raw("location_lon") = JNum(-MaxLon)
    /\ preprocessed_tx[1]["timestamp"] = JInt(max_timestamp)

\* a record one step past a limit is rejected by the range check
C24_WitnessOutside ==
    /\ pc = "raised"
    /\ IsDict(message[1])
    /\ Raw("timestamp") = JInt(min_timestamp - 1)
    /\ Raw("location_lat") = JNum(MaxLat)
    /\ AmountValid
    /\ error = Some([exc |-> "ValueError", err |-> "range"])

\* C25: avg_tx_amount_30d is the card's stored average whenever the store
\* holds one, 0 included, and 75.0 only when it holds none; with avg > 0
\* amount_deviation = (amount - avg) / avg and amount_vs_avg_ratio =
\* amount / avg, and otherwise amount_deviation = 0 and amount_vs_avg_ratio =
\* 1.0.
Extracted == pc = "upd_history" /\ features # None

C25_RollingFeatures ==
    (Extracted /\ "rolling_avg" \notin read_failed) =>
        LET avg == StoredAvgOr75(redis, EvCard)
            diff == Ev.amount * Pow10(avg.k) - avg.n
        IN  /\ features[1].avg_tx_amount_30d = RoundAvg2(avg)
            /\ features[1].amount_deviation =
                    IF avg.n > 0
                    THEN IF diff >= 0 THEN RoundDiv(diff, avg.n, 3)
                         ELSE -RoundDiv(-diff, avg.n, 3)
                    ELSE 0
            /\ features[1].amount_vs_avg_ratio =
                    IF avg.n > 0 THEN RoundRatio3(Ev.amount, avg) ELSE 1000

\* C26: whatever the event and the store (empty, filled, or failing every
\* read), the vector extract_features returns has exactly the 22 keys of the
\* schema, and every value is a value of its type, never null.
FeatureKeys ==
    {"amount", "amount_log", "merchant_category", "has_location",
     "tx_count_10m", "tx_count_1h", "tx_count_24h", "total_amount_10m",
     "total_amount_1h", "total_amount_24h", "unique_merchants_24h",
     "time_since_last_tx", "avg_tx_amount_30d", "amount_deviation",
     "amount_vs_avg_ratio", "hour_of_day", "day_of_week", "is_weekend",
     "is_night", "merchant_risk_score", "merchant_fraud_rate",
     "merchant_total_transactions"}

C26_FrozenSchema ==
    Extracted =>
        /\ DOMAIN features[1] = FeatureKeys
        /\ Cardinality(DOMAIN features[1]) = 22
        /\ \A k \in FeatureKeys \ {"merchant_category", "amount_log"} :
                features[1][k] \in Int
        /\ features[1].merchant_category \in STRING
        /\ features[1].amount_log.log1p \in Nat

\* the vector of an event of a card with history, merchants and an average,
\* extracted while every read of the store failed
C26_Witness ==
    /\ Extracted
    /\ read_failed = ReadOpSet
    /\ redis.zset[EvCard] # {}
    /\ redis.hash[EvCard].avg_amount = Some(Rat(50000, 0))
    /\ features[1].tx_count_24h = 0
    /\ features[1].avg_tx_amount_30d = default_avg_amount

\* the vector of the first event of a card, on a store that answers
C26_WitnessEmpty ==
    /\ Extracted
    /\ read_failed = {}
    /\ redis.zset[EvCard] = {}
    /\ redis.hash[EvCard] = EmptyStats
    /\ features[1].merchant_total_transactions = 100

\* C27: add_to_transaction_history for an event with timestamp t adds the
\* entry with score t and removes exactly the entries with score < t - 86400:
\* an entry with score >= t - 86400, the one at t - 86400 included, is in the
\* history after the call.
C27_TrimOlderThanWindow ==
    [][(pc = "upd_history" /\ pc' # pc) =>
        LET t == Ev.timestamp
            before == redis.zset[EvCard]
            after == (redis.zset[EvCard])'
        IN  /\ [member |-> Ev, score |-> t] \in after
            /\ \A e \in before :
                    IF e.score < t - TTL_TX_HISTORY THEN e \notin after
                    ELSE e \in after]_vars

\* C28: a write that succeeds leaves the key it writes with the TTL of its
\* family, 86400 s for card:{id}:tx_history and card:{id}:merchants:24h and
\* 2592000 s for card:{id}:stats (for the write of the average and for the
\* write of the last timestamp), and no key ever has a TTL above that of its
\* family.
KeyOf(op) ==
    CASE op = "upd_history" -> "tx_history"
      [] op = "upd_merchant" -> "merchants"
      [] op \in {"upd_avg", "upd_last_ts"} -> "stats"

FamilyTtl(key) ==
    CASE key = "tx_history" -> TTL_TX_HISTORY
      [] key = "merchants" -> TTL_MERCHANT_SET
      [] key = "stats" -> TTL_CARD_STATS

C28_WriteResetsTtl ==
    [][\A op \in Updating :
        (pc = op /\ pc' # pc) =>
            /\ op \notin write_failed' =>
                    (redis.ttl[EvCard][KeyOf(op)])' =
                        Some(FamilyTtl(KeyOf(op)))
            /\ \A c \in CardIds, key \in {"tx_history", "merchants", "stats"} :
                    (redis.ttl[c][key])' # None =>
                        (redis.ttl[c][key])'[1] <= FamilyTtl(key)]_vars

\* the four writes of an event of card c1 succeeded on a store that held
\* history of the card, and each of its keys has the TTL of its family
C28_Witness ==
    /\ pc = "log"
    /\ write_failed = {}
    /\ EvCard = "c1"
    /\ redis.ttl["c1"] = [tx_history |-> Some(TTL_TX_HISTORY),
                          merchants |-> Some(TTL_MERCHANT_SET),
                          stats |-> Some(TTL_CARD_STATS)]
    /\ Cardinality(redis.zset["c1"]) >= 2
    /\ ops = WriteOps

\* C29: when the log consumer or the store is not reached during
\* initialization the process exits with code 1 before the loop: it has
\* pulled and processed no message and written nothing to the store, and it
\* does nothing afterwards.
Pristine ==
    /\ message = None
    /\ remaining = MaxMsgs
    /\ redis = EmptyRedis
    /\ ops = <<>>
    /\ processed = <<>>
    /\ messages_processed = 0
    /\ messages_failed = 0

C29_InitFailureExits ==
    [][/\ pc # "exit1"
       /\ pc' = "exit1" => (pc = "init" /\ Pristine')
       /\ (pc = "init" /\ pc' # "init") => pc' \in {"next", "exit1"}
       /\ Pristine' => pc' \in {"init", "next", "exit1"}]_vars

\* the process has exited with code 1
C29_Witness ==
    /\ pc = "exit1"
    /\ Pristine
    /\ running

\* C30: processing an event of card c writes only card:{c}:tx_history,
\* card:{c}:merchants:24h and card:{c}:stats: the keys of every other card,
\* every features:merchant:* key and every features:card:* key are as they
\* were, and no step but the four writes changes the store at all.
CardKeys(r, c) ==
    [tx_history |-> r.zset[c], merchants |-> r.sset[c], stats |-> r.hash[c],
     ttl |-> r.ttl[c]]

C30_WritesOwnKeysOnly ==
    [][/\ pc \notin Updating => redis' = redis
       /\ \A op \in Updating :
            (pc = op /\ pc' # pc) =>
                /\ \A c \in CardIds \ {EvCard} :
                        CardKeys(redis', c) = CardKeys(redis, c)
                /\ redis'.merchant = redis.merchant
                /\ redis'.card_features = redis.card_features
                /\ \A key \in {"tx_history", "merchants", "stats"} \ {KeyOf(op)} :
                        /\ CardKeys(redis', EvCard)[key]
                                = CardKeys(redis, EvCard)[key]
                        /\ (redis.ttl[EvCard][key])' = redis.ttl[EvCard][key]
      ]_vars

\* an event of card c2 has been written to a store that holds keys of card
\* c1, and the merchant and card feature hashes are those of the start
C30_Witness ==
    /\ pc = "log"
    /\ EvCard = "c2"
    /\ redis.zset["c2"] # {} /\ redis.hash["c2"].avg_amount # None
    /\ redis.zset["c1"] # {} /\ redis.hash["c1"].avg_amount # None
    /\ redis.merchant = MerchantHashes
    /\ redis.card_features = CardHashes

\* C31: a message that preprocess rejects is counted in messages_failed and
\* in nothing else, the loop goes on to the next message, and no step of its
\* handling commits an offset: the committed offset moves only when the
\* KafkaConsumer polls or is closed, and then to the position reached.
Rejected ==
    /\ pc = "count"
    /\ preprocessed_tx = None
    /\ success = Some(FALSE)

C31_RejectedNotCommitted ==
    [][/\ (Rejected /\ pc' # pc) =>
            /\ messages_failed' = messages_failed + 1
            /\ messages_processed' = messages_processed
            /\ pc' = "next"
            /\ redis' = redis
       /\ (pc \in {"preprocess", "count"} /\ preprocessed_tx' = None)
            => committed' = committed
       /\ committed' # committed =>
            /\ pc \in {"next", "cleanup"}
            /\ committed' = Position
      ]_vars

\* a rejected message has been counted and nothing is committed yet
C31_Witness ==
    /\ pc = "next"
    /\ messages_failed = 1
    /\ messages_processed = 0
    /\ committed = 0

\* the next poll has committed the position behind the rejected message
C31_WitnessCommittedLater ==
    /\ pc = "check"
    /\ messages_failed = 1
    /\ messages_processed = 0
    /\ committed = 1

\* C32: a summary is printed after every 100 messages the loop has handled,
\* failed ones included, and once more when the consumer shuts down.
Handled == messages_processed + messages_failed

C32_SummaryEvery100 ==
    /\ pc \notin {"cleanup", "done"} => summaries = Handled \div StatsEvery
    /\ pc \in {"cleanup", "done"} => summaries = (Handled \div StatsEvery) + 1

\* C33: update_card_state applied a second time with the same event leaves
\* the merchant set and last_tx_timestamp as the first application left them,
\* adds at most one entry to tx_history, with the score of the first, and
\* changes nothing else in the store but avg_amount.
\* the store after update_card_state is applied once more to the event whose
\* writes have just been made
AppliedTwice ==
    AfterWrites(1, redis, RawCardId(message[1]), preprocessed_tx[1])

AppliedOnce == pc = "log" /\ write_failed = {}

C33_SecondApplication ==
    AppliedOnce =>
        LET c == RawCardId(message[1])
            one == redis
            two == AppliedTwice
            added == two.zset[c] \ one.zset[c]
        IN  /\ two.sset[c] = one.sset[c]
            /\ two.hash[c].last_tx_timestamp = one.hash[c].last_tx_timestamp
            /\ one.zset[c] \subseteq two.zset[c]
            /\ Cardinality(added) <= 1
            /\ \A e \in added :
                    /\ e.score = preprocessed_tx[1]["timestamp"].v
                    /\ \E f \in one.zset[c] : f.score = e.score
            /\ two = [one EXCEPT !.zset[c] = two.zset[c],
                                 !.hash[c].avg_amount =
                                        two.hash[c].avg_amount]

\* the event was applied to a card that had an average, a history and a
\* merchant set, and a second application moves the average
C33_Witness ==
    /\ AppliedOnce
    /\ Cardinality(redis.zset["c1"]) >= 2
    /\ Cardinality(redis.sset["c1"]) >= 2
    /\ redis.hash["c1"].last_tx_timestamp = Some(preprocessed_tx[1]["timestamp"].v)
    /\ AppliedTwice.hash["c1"].avg_amount # redis.hash["c1"].avg_amount

\* C34: in every state of the store the consumer has produced, each entry of
\* each tx_history has an amount > 0, a score equal to its timestamp field
\* and a timestamp no greater than the largest timestamp of the events
\* processed for the card; each stored avg_amount is > 0 and each stored
\* last_tx_timestamp is >= 946684800.
\* the timestamps of the events of card c whose update has run or is running
SeenTimestamps(c) ==
    {processed[i].timestamp :
        i \in {j \in 1..Len(processed) : processed[j].card_id = c}}
    \cup (IF pc \in Updating \cup {"log"} /\ preprocessed_tx # None
              /\ RawCardId(message[1]) = c
          THEN {preprocessed_tx[1]["timestamp"].v} ELSE {})

C34_StoreInvariants ==
    \A c \in DOMAIN redis.zset :
        /\ \A e \in redis.zset[c] :
                /\ e.member.amount # NaN /\ e.member.amount > 0
                /\ e.score = e.member.timestamp
                /\ \E t \in SeenTimestamps(c) : e.member.timestamp <= t
        /\ redis.hash[c].avg_amount # None =>
                LET avg == redis.hash[c].avg_amount[1]
                IN  avg # Rat(NaN, 0) /\ avg.n > 0
        /\ redis.hash[c].last_tx_timestamp # None =>
                redis.hash[c].last_tx_timestamp[1] >= min_timestamp

\* C35: when update_card_state has made its four writes for an event,
\* get_last_transaction_timestamp of the card returns the timestamp of the
\* event; update_last_transaction_timestamp leaves every avg_amount as it
\* was, and update_rolling_average every last_tx_timestamp.
StatsField(r, field) == [c \in DOMAIN r.hash |-> r.hash[c][field]]

C35_StatsFieldsIndependent ==
    [][/\ (pc = "upd_last_ts" /\ pc' = "log" /\ write_failed' = {}) =>
            get_last_transaction_timestamp(redis', RawCardId(message[1]),
                                           "none")
                = Some(preprocessed_tx[1]["timestamp"].v)
       /\ (pc = "upd_last_ts" /\ pc' # pc) =>
            StatsField(redis', "avg_amount") = StatsField(redis, "avg_amount")
       /\ (pc = "upd_avg" /\ pc' # pc) =>
            StatsField(redis', "last_tx_timestamp")
                = StatsField(redis, "last_tx_timestamp")
      ]_vars

\* the four writes were made for a card that had a history and an average
\* of 50.00: the hash holds the timestamp of the event and the new average
C35_Witness ==
    /\ pc = "log"
    /\ write_failed = {}
    /\ preprocessed_tx[1]["timestamp"].v = T0
    /\ preprocessed_tx[1]["amount"].v = 100000
    /\ redis.hash["c1"].last_tx_timestamp = Some(T0)
    /\ redis.hash["c1"].avg_amount = Some(Rat(55000, 0))
    /\ \E e \in redis.zset["c1"] : e.score = T0 - 300

\* C36: a message the loop counts in messages_failed has made no write to the
\* store, whatever made it fail and whatever the types of its fields; the
\* messages for which update_card_state has run are the ones counted in
\* messages_processed.
C36_FailedLeavesStore ==
    /\ (pc = "count" /\ success = Some(FALSE)) =>
            \A i \in 1..Len(ops) : ops[i] \notin Updating
    /\ pc = "next" => Len(processed) = messages_processed

\* C37: messages_processed + messages_failed is the number of messages
\* dispatched to _process_message: each dispatched message adds one to
\* exactly one of the two counters, and whatever is raised while it is
\* processed, it is counted and the loop goes on.
\* the messages handed to _process_message: those taken from the topic, but
\* for one not yet looked at and one dropped by the break
Dispatched ==
    (MaxFaultMsgs - remaining)
        - (IF pc = "check" THEN 1 ELSE 0)
        - (IF pc \in {"final", "cleanup", "done"} /\ message # None
           THEN 1 ELSE 0)

Counted == messages_processed + messages_failed

C37_CountersSumToDispatched ==
    [][/\ Counted' = (IF pc \in InFlight THEN Dispatched - 1 ELSE Dispatched)'
       /\ Counted' # Counted =>
            /\ pc = "count"
            /\ \/ /\ messages_processed' = messages_processed + 1
                  /\ messages_failed' = messages_failed
               \/ /\ messages_failed' = messages_failed + 1
                  /\ messages_processed' = messages_processed
       /\ (pc \in InFlight /\ pc' # pc) => pc' \in InFlight \cup {"next"}
       /\ (pc = "count" /\ pc' # pc) => Counted' = Counted + 1
      ]_vars

\* two messages were dispatched, one raised in the success log line after a
\* write of it had failed, the other was rejected by preprocess: both are
\* counted and the loop waits for the next
C37_Witness ==
    /\ pc = "next"
    /\ Dispatched = 2
    /\ messages_failed = 2
    /\ faults = 0
    /\ Len(processed) = 1

\* C38: once initialization has succeeded, every way out of the loop of
\* consume (the break after a signal, the end of the iterator, an exception,
\* and the final statistics of a run that processed nothing) ends in _cleanup,
\* which runs once and closes the log consumer and the store client; nothing
\* is closed before it and nothing runs it a second time.
C38_CleanupExactlyOnce ==
    /\ [](/\ pc = "final" => ENABLED FinalStatistics
          /\ pc = "cleanup" => ENABLED Cleanup
          /\ pc = "done" =>
                /\ cleanups = 1
                /\ closed = {"consumer", "feature_store"}
          /\ pc # "done" =>
                /\ cleanups = 0
                /\ closed = {})
    /\ [][(pc \in {"final", "cleanup"} /\ pc' # pc) =>
                pc' \in {"cleanup", "done"}]_vars

\* a consumer stopped by a signal before it processed anything: the final
\* statistics raised, and _cleanup has run
C38_Witness ==
    /\ pc = "done"
    /\ ~running
    /\ messages_processed = 0
    /\ message # None
    /\ cleanups = 1
    /\ closed = {"consumer", "feature_store"}

\* the velocity features of the vector f do not decrease with the window
VelocityMonotone(f) ==
    /\ f.tx_count_10m <= f.tx_count_1h
    /\ f.tx_count_1h <= f.tx_count_24h
    /\ f.total_amount_10m <= f.total_amount_1h
    /\ f.total_amount_1h <= f.total_amount_24h

\* C39: in every feature vector extracted from a store that does not change
\* during the extraction, the counts and the totals of the three windows are
\* monotone: 10m <= 1h <= 24h.
C39_VelocityMonotone ==
    features # None => VelocityMonotone(features[1])

\* the same of the extractions in which the three history reads all answer
C39_MonotoneWhenReadsAnswer ==
    (features # None
        /\ read_failed \cap {"history_10m", "history_1h", "history_24h"} = {})
    => VelocityMonotone(features[1])

====
